---- MODULE Spec2Model ----
(***************************************************************************)
(* PredictiveEdge: the game log, the chronological ELO pass, the           *)
(* point-in-time form queries, the training rows, the betting simulation   *)
(* and the prediction request, as a state machine over the store's tables  *)
(* and the locals of the running operation.                                *)
(*                                                                         *)
(* Number representation.  Probabilities are fixed point with ProbOne =    *)
(* 1.0.  Ratings are held in rating units, RatingUnit units per ELO point, *)
(* chosen so that K * (actual - expected) is exact: one rating unit is     *)
(* K / ProbOne of a point.  Averages are exact fractions in lowest terms.  *)
(* Dates are day numbers.  Team abbreviations are their lexical rank       *)
(* (1 = "ATL", 2 = "BOS", 3 = "CHI"), so that game ids order as the        *)
(* strings "YYYY-MM-DD-HOME-AWAY" do.  Money and the probabilities of the  *)
(* betting simulation are exact fractions too: a float is taken for the    *)
(* real number it stands for.                                              *)
(***************************************************************************)
EXTENDS Integers, Sequences, FiniteSets, TLC

VARIABLES
    teams,                \* table teams: set of Team rows
    games,                \* table games: set of Game rows
    box_scores,           \* table team_box_scores: set of TeamBoxScore rows
    elo_ratings,          \* the rating dictionary of the last rating pass
    elo_status,           \* "none" | "ok" | "KeyError": how the last pass ended
    elo_home_advantage,   \* the configured home advantage, in ELO points
    odds,                 \* table odds: set of Odds rows
    features_df,          \* the frame create_feature_set last returned
    test_df,              \* run_profitability_simulation: the test season's rows
    model_win_proba,      \* ... the classifier's win probability per row of test_df
    odds_dict,            \* ... game_id -> the quotes in the order the store gave them
    row_pos,              \* ... position of the next row of test_df
    total_bets,
    total_won,
    total_profit,
    bets_placed,          \* ... the ledger
    results,              \* ... the returned value
    sim_pc,               \* ... "idle" | "loop" | "done"
    request,              \* the arguments of the last prediction request
    prediction,           \* what generate_prediction_with_value returned for it
    model_artifacts,      \* the files present in MODEL_ARTIFACTS_DIR
    db_session,           \* the database session of the last prediction request
    http_status,          \* the status of the last /predict response (0: none)
    api_pc,               \* fetch_historical_odds_from_api: "idle" | "loop" | "returned"
    current_date,         \* ... the date the loop is at
    end_date,             \* ... the last date of the range
    feed_failures,        \* ... failed requests for current_date so far
    response              \* ... what the last request to the feed gave

store_vars == <<teams, games, box_scores, odds>>

elo_vars == <<elo_ratings, elo_status, elo_home_advantage>>

backtest_vars == <<test_df, model_win_proba, odds_dict, row_pos, total_bets, total_won, total_profit,
                   bets_placed, results, sim_pc>>

predict_vars == <<request, prediction, model_artifacts, db_session, http_status>>

api_vars == <<api_pc, current_date, end_date, feed_failures, response>>

vars == <<store_vars, elo_vars, features_df, backtest_vars, predict_vars, api_vars>>

-----------------------------------------------------------------------------
(* Bounds of the model *)

MaxGames == 2
MaxDate == 2
MaxFailures == 2     \* failed requests the feed answers one date with

(* Program constants *)

ELO_INITIAL == 1500
ELO_K_FACTOR == 20
ELO_HOME_ADVANTAGE == 100
ROLLING_WINDOW == 10
DEFAULT_DAYS_REST == 3
VAL_SEASON == 2023
TEST_SEASON == 2024
VALUE_EDGE_THRESHOLD_PCT == 3
DEFAULT_BET_AMOUNT == 100

(* A nullable column holding no value *)
NULL == -1

(* Fixed point 1.0 *)
ProbOne == 10000
RatingUnit == ProbOne \div ELO_K_FACTOR

(* Input domains *)

Abbreviations == {1, 2, 3}
Dates == 1..MaxDate
Cutoffs == 1..(MaxDate + 1)
Windows == {1, 2, ROLLING_WINDOW}

\* <<HOME, VISITOR>> pairings the schedule feed offers
Fixtures == {<<1, 2>>, <<2, 1>>, <<3, 1>>}

\* What a schedule row carries (HOME_PTS, VISITOR_PTS) and which sides the
\* box score feed then answers for: a scheduled game, a row with only one
\* score, completed games with box scores, completed games whose box score
\* fetch returned nothing or only the home line.
ScheduleRows ==
    { [HOME_PTS |-> NULL, VISITOR_PTS |-> NULL, box |-> {}],
      [HOME_PTS |-> 2,    VISITOR_PTS |-> NULL, box |-> {}],
      [HOME_PTS |-> 2,    VISITOR_PTS |-> 1,    box |-> {"home", "visitor"}],
      [HOME_PTS |-> 1,    VISITOR_PTS |-> 2,    box |-> {"home", "visitor"}],
      [HOME_PTS |-> 1,    VISITOR_PTS |-> 1,    box |-> {"home", "visitor"}],
      [HOME_PTS |-> 2,    VISITOR_PTS |-> 1,    box |-> {}],
      [HOME_PTS |-> 1,    VISITOR_PTS |-> 2,    box |-> {"home"}] }

\* The season whose schedule carries a date: the last day of one season, then
\* the days of the next
FeedSeason(game_date) == IF game_date <= 1 THEN VAL_SEASON ELSE TEST_SEASON

\* The same rows when the box score feed is down
ScheduleRowsNoBox ==
    { [r EXCEPT !.box = {}] : r \in ScheduleRows }

\* The stat line the box score feed reports for a side that scored `own`
\* against `opp` (fg_pct in thousandths)
FeedStats(own, opp) ==
    [ PTS |-> own, FGpct |-> 400 + 25 * own, TOV |-> 10 + opp,
      PlusMinus |-> own - opp, TRB |-> 40 + 3 * own, AST |-> 20 + own ]

-----------------------------------------------------------------------------
(* Arithmetic helpers *)

Abs(x) == IF x < 0 THEN 0 - x ELSE x

Min(a, b) == IF a <= b THEN a ELSE b

Max(a, b) == IF a >= b THEN a ELSE b

RECURSIVE GCD(_, _)
GCD(a, b) == IF b = 0 THEN a ELSE GCD(b, a % b)

\* total / n as an exact fraction in lowest terms (n > 0)
Div(total, n) ==
    LET g == GCD(Abs(total), n)
    IN  [num |-> total \div g, den |-> n \div g]

Zero == [num |-> 0, den |-> 1]

\* Arithmetic and order of exact fractions (denominators are positive)
Frac(n) == [num |-> n, den |-> 1]

FracAdd(a, b) == Div(a.num * b.den + b.num * a.den, a.den * b.den)

FracSub(a, b) == Div(a.num * b.den - b.num * a.den, a.den * b.den)

FracMul(a, b) == Div(a.num * b.num, a.den * b.den)

\* a / b for b > 0
FracDiv(a, b) == Div(a.num * b.den, a.den * b.num)

FracGT(a, b) == a.num * b.den > b.num * a.den

FracAbs(a) == [num |-> Abs(a.num), den |-> a.den]

RECURSIVE SeqSum(_)
SeqSum(s) == IF s = <<>> THEN 0 ELSE Head(s) + SeqSum(Tail(s))

-----------------------------------------------------------------------------
(* Ingestion: DataIngestor *)

\* A team row is added at every sighting of an abbreviation
_get_or_create_team_without_lookup(T, abbreviation) ==
    T \cup { [team_id |-> Cardinality(T) + 1,
              team_name |-> abbreviation,
              abbreviation |-> abbreviation] }

_get_or_create_team(T, abbreviation) ==
    IF \E t \in T : t.abbreviation = abbreviation
    THEN T
    ELSE T \cup { [team_id |-> Cardinality(T) + 1,
                   team_name |-> abbreviation,
                   abbreviation |-> abbreviation] }

TeamByAbbreviation(T, abbreviation) ==
    CHOOSE t \in T : t.abbreviation = abbreviation

_create_game_id(date, home_abbr, away_abbr) == <<date, home_abbr, away_abbr>>

_create_box_score(B, game_id, team_id, is_home, stats) ==
    IF \E b \in B : b.game_id = game_id /\ b.team_id = team_id
    THEN B
    ELSE B \cup { [game_id |-> game_id, team_id |-> team_id, is_home |-> is_home,
                   pts |-> stats.PTS, fg_pct |-> stats.FGpct, tov |-> stats.TOV,
                   plus_minus |-> stats.PlusMinus, trb |-> stats.TRB,
                   ast |-> stats.AST] }

_fetch_and_store_box_scores(B, game_id, visitor_team, home_team, row) ==
    LET B1 == IF "visitor" \in row.box
              THEN _create_box_score(B, game_id, visitor_team.team_id, FALSE,
                                     FeedStats(row.VISITOR_PTS, row.HOME_PTS))
              ELSE B
    IN  IF "home" \in row.box
        THEN _create_box_score(B1, game_id, home_team.team_id, TRUE,
                               FeedStats(row.HOME_PTS, row.VISITOR_PTS))
        ELSE B1

\* One schedule row of fetch_historical_games_and_stats
fetch_historical_games_and_stats(game_date, home, visitor, row) ==
    LET T1 == _get_or_create_team(teams, visitor)
        T2 == _get_or_create_team(T1, home)
        visitor_team == TeamByAbbreviation(T2, visitor)
        home_team == TeamByAbbreviation(T2, home)
        game_id == _create_game_id(game_date, home_team.abbreviation,
                                   visitor_team.abbreviation)
        game == [ game_id |-> game_id, date |-> game_date,
                  home_team_id |-> home_team.team_id,
                  away_team_id |-> visitor_team.team_id,
                  home_score |-> row.HOME_PTS,
                  away_score |-> row.VISITOR_PTS,
                  season |-> FeedSeason(game_date),
                  home_team_pregame_elo |-> NULL,
                  away_team_pregame_elo |-> NULL ]
    IN  /\ Cardinality(games) < MaxGames
        /\ teams' = T2
        /\ IF \E g \in games : g.game_id = game_id
           THEN UNCHANGED <<games, box_scores>>
           ELSE /\ games' = games \cup {game}
                /\ box_scores' =
                     IF row.VISITOR_PTS # NULL /\ row.HOME_PTS # NULL
                     THEN _fetch_and_store_box_scores(box_scores, game_id,
                                                      visitor_team, home_team, row)
                     ELSE box_scores
        /\ UNCHANGED <<odds, elo_vars, features_df, backtest_vars, predict_vars, api_vars>>

-----------------------------------------------------------------------------
(* The form window: feature_engineering.py *)

GameOf(G, b) == CHOOSE g \in G : g.game_id = b.game_id

\* ORDER BY Game.date DESC LIMIT n over joined rows: the store may return rows
\* of equal date in any order, so this is the set of row lists it can return.
RECURSIVE OrderByDateDescLimit(_, _)
OrderByDateDescLimit(rows, n) ==
    IF n = 0 \/ rows = {}
    THEN { <<>> }
    ELSE UNION { { <<r>> \o rest : rest \in OrderByDateDescLimit(rows \ {r}, n - 1) }
                 : r \in { x \in rows : \A y \in rows : y.date <= x.date } }

OrZero(x) == IF x = NULL THEN 0 ELSE x

AllTeamIds == 1..Cardinality(Abbreviations)

\* TeamBoxScore JOIN Game WHERE team_id = :team AND date < :game_date AND
\* home_score IS NOT NULL
RollingRows(team_id, game_date) ==
    { [bs |-> b, game |-> GameOf(games, b), date |-> GameOf(games, b).date] :
        b \in { x \in box_scores :
                  /\ x.team_id = team_id
                  /\ GameOf(games, x).date < game_date
                  /\ GameOf(games, x).home_score # NULL } }

RollingDefaults ==
    [ avg_pts_scored |-> Zero, avg_pts_allowed |-> Zero, avg_fg_pct |-> Zero,
      avg_tov |-> Zero, avg_plus_minus |-> Zero, avg_rebounds |-> Zero,
      avg_assists |-> Zero ]

PtsAllowed(row) ==
    IF row.bs.is_home THEN OrZero(row.game.away_score)
                      ELSE OrZero(row.game.home_score)

RollingAverages(rows) ==
    IF rows = <<>>
    THEN RollingDefaults
    ELSE LET n == Len(rows)
             total_pts == SeqSum([i \in 1..n |-> rows[i].bs.pts])
             total_fg_pct == SeqSum([i \in 1..n |-> rows[i].bs.fg_pct])
             total_tov == SeqSum([i \in 1..n |-> rows[i].bs.tov])
             total_plus_minus == SeqSum([i \in 1..n |-> rows[i].bs.plus_minus])
             total_rebounds == SeqSum([i \in 1..n |-> rows[i].bs.trb])
             total_assists == SeqSum([i \in 1..n |-> rows[i].bs.ast])
             total_pts_allowed == SeqSum([i \in 1..n |-> PtsAllowed(rows[i])])
         IN  [ avg_pts_scored |-> Div(total_pts, n),
               avg_pts_allowed |-> Div(total_pts_allowed, n),
               avg_fg_pct |-> Div(total_fg_pct, n),
               avg_tov |-> Div(total_tov, n),
               avg_plus_minus |-> Div(total_plus_minus, n),
               avg_rebounds |-> Div(total_rebounds, n),
               avg_assists |-> Div(total_assists, n) ]

\* get_rolling_averages without its LIMIT
get_rolling_averages_unlimited(team_id, game_date, window) ==
    { RollingAverages(rows) :
        rows \in OrderByDateDescLimit(RollingRows(team_id, game_date),
                                      Cardinality(box_scores)) }

\* The results get_rolling_averages can return (one per order the store may
\* give rows of equal date)
get_rolling_averages(team_id, game_date, window) ==
    { RollingAverages(rows) :
        rows \in OrderByDateDescLimit(RollingRows(team_id, game_date), window) }

\* H2HGames with the cutoff date itself let in
H2HGamesInclusive(team_id, opponent_id, game_date) ==
    { g \in games :
        /\ \/ g.home_team_id = team_id /\ g.away_team_id = opponent_id
           \/ g.home_team_id = opponent_id /\ g.away_team_id = team_id
        /\ g.date <= game_date
        /\ g.home_score # NULL }

H2HGames(team_id, opponent_id, game_date) ==
    { g \in games :
        /\ \/ g.home_team_id = team_id /\ g.away_team_id = opponent_id
           \/ g.home_team_id = opponent_id /\ g.away_team_id = team_id
        /\ g.date < game_date
        /\ g.home_score # NULL }

get_h2h_win_pct(team_id, opponent_id, game_date) ==
    LET gs == H2HGames(team_id, opponent_id, game_date)
        wins == Cardinality(
                  { g \in gs :
                      /\ ~(g.home_score = NULL \/ g.away_score = NULL)
                      /\ \/ g.home_team_id = team_id /\ g.home_score > g.away_score
                         \/ g.away_team_id = team_id /\ g.away_score > g.home_score })
    IN  IF gs = {} THEN Div(1, 2) ELSE Div(wins, Cardinality(gs))

\* Game JOIN TeamBoxScore WHERE team_id = :team AND date < :game_date AND
\* home_score IS NOT NULL
RestRows(team_id, game_date) ==
    { g \in games :
        /\ \E b \in box_scores : b.game_id = g.game_id /\ b.team_id = team_id
        /\ g.date < game_date
        /\ g.home_score # NULL }

\* The results get_days_rest can return
get_days_rest(team_id, game_date) ==
    IF RestRows(team_id, game_date) = {}
    THEN { DEFAULT_DAYS_REST }
    ELSE { Max(0, game_date - first[1].date) :
             first \in OrderByDateDescLimit(RestRows(team_id, game_date), 1) }

-----------------------------------------------------------------------------
(* Specification of the game log and the form window *)

\* No simulation has run and no prediction was requested
Idle ==
    /\ test_df = << >>
    /\ model_win_proba = << >>
    /\ odds_dict = << >>
    /\ row_pos = 1
    /\ total_bets = 0
    /\ total_won = 0
    /\ total_profit = Zero
    /\ bets_placed = << >>
    /\ results = [returned |-> "nothing"]
    /\ sim_pc = "idle"
    /\ request = [made |-> FALSE]
    /\ prediction = [returned |-> "nothing"]
    /\ db_session = [passed |-> FALSE, opened |-> FALSE, closed |-> FALSE]
    /\ http_status = 0
    /\ api_pc = "idle"
    /\ current_date = 0
    /\ end_date = 0
    /\ feed_failures = 0
    /\ response = "none"

Init ==
    /\ teams = {}
    /\ games = {}
    /\ box_scores = {}
    /\ odds = {}
    /\ elo_ratings = << >>
    /\ elo_status = "none"
    /\ features_df = << >>
    /\ model_artifacts = {}
    /\ Idle

FormInit ==
    /\ Init
    /\ elo_home_advantage = ELO_HOME_ADVANTAGE

IngestScheduleRow ==
    \E game_date \in Dates, f \in Fixtures, row \in ScheduleRows :
        fetch_historical_games_and_stats(game_date, f[1], f[2], row)

FormNext == IngestScheduleRow

FormSpec == FormInit /\ [][FormNext]_vars

-----------------------------------------------------------------------------
(* Properties of the form window *)

\* A game with a recorded result: both scores are present
Completed(g) == g.home_score # NULL /\ g.away_score # NULL

Plays(g, team_id) == g.home_team_id = team_id \/ g.away_team_id = team_id

RECURSIVE SumFn(_, _)
SumFn(f, S) ==
    IF S = {} THEN 0
    ELSE LET x == CHOOSE y \in S : TRUE IN f[x] + SumFn(f, S \ {x})

\* avg is the arithmetic mean total / n
IsMean(avg, total, n) == avg.den > 0 /\ avg.num * n = avg.den * total

\* The team's box scores from completed games dated strictly before D
QualifyingBoxScores(t, D) ==
    { b \in box_scores :
        /\ b.team_id = t
        /\ Completed(GameOf(games, b))
        /\ GameOf(games, b).date < D }

\* S holds the most recent rows of Q: nothing left out is newer than a row taken
MostRecentOf(S, Q) ==
    \A x \in S, y \in Q \ S : GameOf(games, y).date <= GameOf(games, x).date

OpponentScore(b) ==
    IF b.is_home THEN GameOf(games, b).away_score ELSE GameOf(games, b).home_score

MeansOver(r, S) ==
    LET n == Cardinality(S)
    IN  /\ IsMean(r.avg_pts_scored, SumFn([b \in S |-> b.pts], S), n)
        /\ IsMean(r.avg_pts_allowed, SumFn([b \in S |-> OpponentScore(b)], S), n)
        /\ IsMean(r.avg_fg_pct, SumFn([b \in S |-> b.fg_pct], S), n)
        /\ IsMean(r.avg_tov, SumFn([b \in S |-> b.tov], S), n)
        /\ IsMean(r.avg_plus_minus, SumFn([b \in S |-> b.plus_minus], S), n)
        /\ IsMean(r.avg_rebounds, SumFn([b \in S |-> b.trb], S), n)
        /\ IsMean(r.avg_assists, SumFn([b \in S |-> b.ast], S), n)

\* C1: no look-ahead.  A step that adds a game dated on or after a cutoff D
\* (with whatever box scores come with it, completed or not) leaves
\* get_rolling_averages, get_h2h_win_pct and get_days_rest at cutoff D
\* unchanged, for every team, opponent and window.
C1_NoLookAhead ==
    [][ \A g \in games' \ games : \A D \in Cutoffs : \A t \in AllTeamIds :
          g.date >= D =>
            /\ \A w \in Windows :
                 get_rolling_averages(t, D, w)' = get_rolling_averages(t, D, w)
            /\ \A o \in AllTeamIds \ {t} :
                 get_h2h_win_pct(t, o, D)' = get_h2h_win_pct(t, o, D)
            /\ get_days_rest(t, D)' = get_days_rest(t, D) ]_vars

\* C1 witness: a team with history before a cutoff D (its form at D is not
\* the cold-start one) has also played a completed game, box scores stored,
\* on or after D.
C1_Witness ==
    \E t \in AllTeamIds, o \in AllTeamIds, D \in Cutoffs :
        /\ QualifyingBoxScores(t, D) # {}
        /\ H2HGames(t, o, D) # {}
        /\ get_days_rest(t, D) # {DEFAULT_DAYS_REST}
        /\ \E b \in box_scores :
             /\ b.team_id = t
             /\ GameOf(games, b).date >= D
             /\ Completed(GameOf(games, b))
             /\ Plays(GameOf(games, b), o)

\* C7: cold start.  A team with no box score from a completed game before the
\* cutoff gets all-zero rolling averages and 3 days of rest, and two teams
\* with no shared completed game before the cutoff get a head-to-head rate of
\* exactly 0.5.
C7_ColdStartDefaults ==
    \A t \in AllTeamIds, D \in Cutoffs :
        /\ QualifyingBoxScores(t, D) = {} =>
             /\ \A w \in Windows : get_rolling_averages(t, D, w) = {RollingDefaults}
             /\ get_days_rest(t, D) = {DEFAULT_DAYS_REST}
        /\ \A o \in AllTeamIds \ {t} :
             { g \in games : Completed(g) /\ Plays(g, t) /\ Plays(g, o) /\ g.date < D } = {}
                => get_h2h_win_pct(t, o, D) = Div(1, 2)

\* C8: every result of get_rolling_averages(t, D, w) is, stat by stat, the
\* arithmetic mean over min(w, n) most recent of the team's n box scores from
\* completed games dated strictly before D, points allowed being the
\* opponent's score picked by is_home.
C8_RollingWindowMean ==
    \A t \in AllTeamIds, D \in Cutoffs, w \in Windows :
        LET Q == QualifyingBoxScores(t, D)
        IN  Q # {} =>
              /\ get_rolling_averages(t, D, w) # {}
              /\ \A r \in get_rolling_averages(t, D, w) :
                   \E S \in SUBSET Q :
                       /\ Cardinality(S) = Min(w, Cardinality(Q))
                       /\ MostRecentOf(S, Q)
                       /\ MeansOver(r, S)

\* C8 witness: a team has two box scores before the cutoff, on different
\* dates and with different points, and a window of 1 keeps the newer one.
C8_Witness ==
    \E t \in AllTeamIds, D \in Cutoffs :
        \E b1, b2 \in QualifyingBoxScores(t, D) :
            /\ GameOf(games, b1).date < GameOf(games, b2).date
            /\ b1.pts # b2.pts
            /\ b1.is_home # b2.is_home
            /\ get_rolling_averages(t, D, 1) = { RollingAverages(<<[bs |-> b2,
                   game |-> GameOf(games, b2), date |-> GameOf(games, b2).date]>>) }

\* C9: with at least one completed game between the two teams before D,
\* get_h2h_win_pct is (such games won by the team) / (such games), in [0, 1].
C9_H2HFraction ==
    \A t \in AllTeamIds, D \in Cutoffs : \A o \in AllTeamIds \ {t} :
        LET C == { g \in games :
                     Completed(g) /\ Plays(g, t) /\ Plays(g, o) /\ g.date < D }
            won == { g \in C :
                       \/ g.home_team_id = t /\ g.home_score > g.away_score
                       \/ g.away_team_id = t /\ g.away_score > g.home_score }
            r == get_h2h_win_pct(t, o, D)
        IN  C # {} =>
              /\ IsMean(r, Cardinality(won), Cardinality(C))
              /\ 0 <= r.num /\ r.num <= r.den

\* C10: for a team that has played a completed game before D, get_days_rest
\* is D minus the date of the most recent such game, and is never negative.
C10_DaysRest ==
    \A t \in AllTeamIds, D \in Cutoffs :
        LET P == { g \in games : Completed(g) /\ Plays(g, t) /\ g.date < D }
            last == CHOOSE g \in P : \A h \in P : h.date <= g.date
        IN  P # {} =>
              \A r \in get_days_rest(t, D) : r = D - last.date /\ r >= 0

-----------------------------------------------------------------------------
(* The rating engine: feature_engineering.py, calculate_elo_ratings *)

\* 1 / (1 + 10 ** (d / 400)) rounded to fixed point at d = 0, 25, 50, ..., 800
\* points; entry 1 is exactly 0.5, as 1 / (1 + 10 ** 0) is in floating point
ExpectedTable ==
    << 5000, 4641, 4285, 3937, 3599, 3275, 2966, 2675, 2403, 2150, 1917,
       1704, 1510, 1334, 1177, 1035, 909, 797, 698, 610, 532, 464, 405, 352,
       307, 267, 232, 201, 175, 152, 132, 114, 99 >>

TableStep == 25 * RatingUnit

\* 1 / (1 + 10 ** (diff / 400)) for a rating difference in rating units:
\* the table, linearly interpolated, mirrored for negative differences
Expected(diff) ==
    LET a == Abs(diff)
        last == Len(ExpectedTable) - 1
        k == Min(a \div TableStep, last)
        r == IF k = last THEN 0 ELSE a % TableStep
        lo == ExpectedTable[k + 1]
        hi == ExpectedTable[Min(k + 2, last + 1)]
        v == lo - ((lo - hi) * r) \div TableStep
    IN  IF diff >= 0 THEN v ELSE ProbOne - v

\* ORDER BY Game.date, Game.game_id
GameBefore(g, h) ==
    \/ g.date < h.date
    \/ /\ g.date = h.date
       /\ \/ g.game_id[1] < h.game_id[1]
          \/ g.game_id[1] = h.game_id[1] /\ g.game_id[2] < h.game_id[2]
          \/ /\ g.game_id[1] = h.game_id[1] /\ g.game_id[2] = h.game_id[2]
             /\ g.game_id[3] < h.game_id[3]

\* The games newest first
RECURSIVE OrderedGamesDescending(_)
OrderedGamesDescending(G) ==
    IF G = {} THEN << >>
    ELSE LET last == CHOOSE g \in G : \A h \in G \ {g} : GameBefore(h, g)
         IN  <<last>> \o OrderedGamesDescending(G \ {last})

RECURSIVE OrderedGames(_)
OrderedGames(G) ==
    IF G = {} THEN << >>
    ELSE LET first == CHOOSE g \in G : \A h \in G \ {g} : GameBefore(g, h)
         IN  <<first>> \o OrderedGames(G \ {first})

\* A result counted as soon as the home score is present
HasResultHomeOnly(game) == game.home_score # NULL

\* game.home_score is not None and game.away_score is not None
HasResult(game) == game.home_score # NULL /\ game.away_score # NULL

ActualHomeScore(game) ==
    IF game.home_score > game.away_score THEN ProbOne
    ELSE IF game.home_score < game.away_score THEN 0
    ELSE ProbOne \div 2

\* The update with the away side given the home side's change
EloUpdateCopiedChange(home_elo, away_elo, advantage, game) ==
    LET expected_home_win == Expected(away_elo - (home_elo + advantage * RatingUnit))
        home_elo_change == ActualHomeScore(game) - expected_home_win
    IN  [home |-> home_elo + home_elo_change, away |-> away_elo + home_elo_change]

\* Each side's expectation computed from its own view of the ratings, the
\* home advantage counted on the home side only
EloUpdateIndependentExpectations(home_elo, away_elo, advantage, game) ==
    LET expected_home_win == Expected(away_elo - (home_elo + advantage * RatingUnit))
        expected_away_win == Expected(home_elo - away_elo)
        actual_home_score == ActualHomeScore(game)
        actual_away_score == ProbOne - actual_home_score
    IN  [home |-> home_elo + (actual_home_score - expected_home_win),
         away |-> away_elo + (actual_away_score - expected_away_win)]

\* The ratings of the two sides after a game with a result (rating units:
\* ELO_K_FACTOR * (actual - expected) points is actual - expected units)
EloUpdate(home_elo, away_elo, advantage, game) ==
    LET home_elo_with_advantage == home_elo + advantage * RatingUnit
        expected_home_win == Expected(away_elo - home_elo_with_advantage)
        expected_away_win == ProbOne - expected_home_win
        actual_home_score == ActualHomeScore(game)
        actual_away_score == ProbOne - actual_home_score
        home_elo_change == actual_home_score - expected_home_win
        away_elo_change == actual_away_score - expected_away_win
    IN  [home |-> home_elo + home_elo_change, away |-> away_elo + away_elo_change]

\* A dictionary holding only the teams some stamped game already names
InitialRatingsOfRatedTeams(T, G) ==
    [ id \in { t.team_id : t \in { x \in T :
                 \E g \in G : /\ g.home_team_pregame_elo # NULL
                              /\ x.team_id \in {g.home_team_id, g.away_team_id} } }
        |-> ELO_INITIAL * RatingUnit ]

\* A dictionary that starts every team from the stamp of its latest stamped
\* game
InitialRatingsCarriedOver(T, G) ==
    [ id \in { t.team_id : t \in T } |->
        LET seen == { g \in G : /\ g.home_team_pregame_elo # NULL
                                 /\ id \in {g.home_team_id, g.away_team_id} }
        IN  IF seen = {}
            THEN ELO_INITIAL * RatingUnit
            ELSE LET last == CHOOSE g \in seen : \A h \in seen \ {g} : GameBefore(h, g)
                 IN  IF last.home_team_id = id
                     THEN last.home_team_pregame_elo
                     ELSE last.away_team_pregame_elo ]

\* elo_ratings after the loop over db.query(Team).all()
InitialRatings(T, G) ==
    [ id \in { t.team_id : t \in T } |-> ELO_INITIAL * RatingUnit ]

\* The loop over the ordered games from position i on: the dictionary, the
\* games stamped so far, and whether a rating lookup raised KeyError
RECURSIVE EloLoop(_, _, _, _, _)
EloLoop(ordered, i, ratings, stamped, advantage) ==
    IF i > Len(ordered)
    THEN [elo_ratings |-> ratings, games |-> stamped, raised |-> FALSE]
    ELSE LET game == ordered[i]
             home_team_id == game.home_team_id
             away_team_id == game.away_team_id
         IN  IF home_team_id \notin DOMAIN ratings \/ away_team_id \notin DOMAIN ratings
             THEN [elo_ratings |-> ratings, games |-> stamped, raised |-> TRUE]
             ELSE LET home_elo == ratings[home_team_id]
                      away_elo == ratings[away_team_id]
                      stamp == [game EXCEPT !.home_team_pregame_elo = home_elo,
                                            !.away_team_pregame_elo = away_elo]
                      new == EloUpdate(home_elo, away_elo, advantage, game)
                      updated == IF HasResult(game)
                                 THEN [[ratings EXCEPT ![home_team_id] = new.home]
                                                EXCEPT ![away_team_id] = new.away]
                                 ELSE ratings
                  IN  EloLoop(ordered, i + 1, updated, stamped \cup {stamp}, advantage)

\* The whole pass over a team table T and a game table G
EloPass(T, G, advantage) ==
    EloLoop(OrderedGames(G), 1, InitialRatings(T, G), {}, advantage)

calculate_elo_ratings ==
    LET pass == EloPass(teams, games, elo_home_advantage)
    IN  /\ elo_ratings' = pass.elo_ratings
        /\ IF pass.raised
           THEN elo_status' = "KeyError" /\ UNCHANGED games
           ELSE elo_status' = "ok" /\ games' = pass.games
        /\ UNCHANGED <<teams, box_scores, odds, elo_home_advantage>>
        /\ UNCHANGED <<features_df, backtest_vars, predict_vars, api_vars>>

-----------------------------------------------------------------------------
(* Inference: predict.py, get_current_elo *)

\* The ratings get_current_elo can return (one per order the store may give
\* games of equal date)
get_current_elo(team_id) ==
    LET rows == { g \in games :
                    /\ g.home_team_id = team_id \/ g.away_team_id = team_id
                    /\ g.home_team_pregame_elo # NULL }
        Adjusted(recent_game) ==
            LET elo == IF recent_game.home_team_id = team_id
                       THEN recent_game.home_team_pregame_elo
                       ELSE recent_game.away_team_pregame_elo
            IN  IF recent_game.home_score # NULL /\ recent_game.away_score # NULL
                THEN IF \/ /\ recent_game.home_team_id = team_id
                           /\ recent_game.home_score > recent_game.away_score
                        \/ /\ recent_game.away_team_id = team_id
                           /\ recent_game.away_score > recent_game.home_score
                     THEN elo + 15 * RatingUnit
                     ELSE elo - 15 * RatingUnit
                ELSE elo
    IN  IF rows = {}
        THEN { ELO_INITIAL * RatingUnit }
        ELSE { Adjusted(first[1]) : first \in OrderByDateDescLimit(rows, 1) }

-----------------------------------------------------------------------------
(* Training rows: feature_engineering.py, create_feature_set *)

\* ORDER BY Game.date over a set of games: the store may return games of
\* equal date in any order, so this is the set of lists it can return.
RECURSIVE OrderByDate(_)
OrderByDate(G) ==
    IF G = {}
    THEN { <<>> }
    ELSE UNION { { <<g>> \o rest : rest \in OrderByDate(G \ {g}) }
                 : g \in { x \in G : \A y \in G : x.date <= y.date } }

\* game.home_team_pregame_elo or ELO_INITIAL
OrInitial(elo) == IF elo = NULL \/ elo = 0 THEN ELO_INITIAL * RatingUnit ELSE elo

\* One perspective's row
FeatureRow(game, team_id, opponent_id, is_home, did_win, win_margin, team_elo, opponent_elo, rolling, opp_rolling, h2h, rest, opp_rest) ==
    [ game_id |-> game.game_id,
      team_id |-> team_id,
      opponent_id |-> opponent_id,
      is_home |-> is_home,
      target_did_win |-> did_win,
      target_win_margin |-> win_margin,
      team_elo |-> team_elo,
      opponent_elo |-> opponent_elo,
      elo_diff |-> team_elo - opponent_elo,
      avg_pts_scored_l10 |-> rolling.avg_pts_scored,
      avg_pts_allowed_l10 |-> rolling.avg_pts_allowed,
      avg_fg_pct_l10 |-> rolling.avg_fg_pct,
      avg_tov_l10 |-> rolling.avg_tov,
      avg_plus_minus_l10 |-> rolling.avg_plus_minus,
      avg_rebounds_l10 |-> rolling.avg_rebounds,
      avg_assists_l10 |-> rolling.avg_assists,
      opp_avg_pts_scored_l10 |-> opp_rolling.avg_pts_scored,
      opp_avg_pts_allowed_l10 |-> opp_rolling.avg_pts_allowed,
      opp_avg_fg_pct_l10 |-> opp_rolling.avg_fg_pct,
      opp_avg_tov_l10 |-> opp_rolling.avg_tov,
      opp_avg_plus_minus_l10 |-> opp_rolling.avg_plus_minus,
      h2h_win_pct |-> h2h,
      days_since_last_game |-> rest,
      opponent_days_since_last_game |-> opp_rest,
      rest_advantage |-> rest - opp_rest,
      season |-> game.season,
      date |-> game.date ]

\* The pairs with the away row given the home row's label and ratings
GameRowsHomePerspective(game) ==
    LET home_won == IF game.home_score > game.away_score THEN 1 ELSE 0
        win_margin == game.home_score - game.away_score
        home_elo == OrInitial(game.home_team_pregame_elo)
        away_elo == OrInitial(game.away_team_pregame_elo)
        h2h_home == get_h2h_win_pct(game.home_team_id, game.away_team_id, game.date)
        h2h_away == get_h2h_win_pct(game.away_team_id, game.home_team_id, game.date)
    IN  { << FeatureRow(game, game.home_team_id, game.away_team_id, 1, home_won,
                        win_margin, home_elo, away_elo, home_rolling, away_rolling,
                        h2h_home, home_rest, away_rest),
             FeatureRow(game, game.away_team_id, game.home_team_id, 0, home_won,
                        0 - win_margin, home_elo, away_elo, away_rolling, home_rolling,
                        h2h_away, away_rest, home_rest) >> :
            home_rolling \in get_rolling_averages(game.home_team_id, game.date,
                                                  ROLLING_WINDOW),
            away_rolling \in get_rolling_averages(game.away_team_id, game.date,
                                                  ROLLING_WINDOW),
            home_rest \in get_days_rest(game.home_team_id, game.date),
            away_rest \in get_days_rest(game.away_team_id, game.date) }

\* The <<home_row, away_row>> pairs the loop body can append for a game
\* with both scores
GameRows(game) ==
    LET home_won == IF game.home_score > game.away_score THEN 1 ELSE 0
        win_margin == game.home_score - game.away_score
        home_elo == OrInitial(game.home_team_pregame_elo)
        away_elo == OrInitial(game.away_team_pregame_elo)
        h2h_home == get_h2h_win_pct(game.home_team_id, game.away_team_id, game.date)
        h2h_away == get_h2h_win_pct(game.away_team_id, game.home_team_id, game.date)
    IN  { << FeatureRow(game, game.home_team_id, game.away_team_id, 1, home_won,
                        win_margin, home_elo, away_elo, home_rolling, away_rolling,
                        h2h_home, home_rest, away_rest),
             FeatureRow(game, game.away_team_id, game.home_team_id, 0, 1 - home_won,
                        0 - win_margin, away_elo, home_elo, away_rolling, home_rolling,
                        h2h_away, away_rest, home_rest) >> :
            home_rolling \in get_rolling_averages(game.home_team_id, game.date,
                                                  ROLLING_WINDOW),
            away_rolling \in get_rolling_averages(game.away_team_id, game.date,
                                                  ROLLING_WINDOW),
            home_rest \in get_days_rest(game.home_team_id, game.date),
            away_rest \in get_days_rest(game.away_team_id, game.date) }

\* The loop emitting rows for every game the query returned
RECURSIVE FeatureLoopHomeScoreOnly(_, _)
FeatureLoopHomeScoreOnly(ordered, i) ==
    IF i > Len(ordered)
    THEN { <<>> }
    ELSE { pair \o rest : pair \in GameRows(ordered[i]),
                          rest \in FeatureLoopHomeScoreOnly(ordered, i + 1) }

\* The loop over the queried games from position i on: the row lists it can
\* build
RECURSIVE FeatureLoop(_, _)
FeatureLoop(ordered, i) ==
    IF i > Len(ordered)
    THEN { <<>> }
    ELSE LET game == ordered[i]
         IN  IF game.home_score = NULL \/ game.away_score = NULL
             THEN FeatureLoop(ordered, i + 1)
             ELSE { pair \o rest : pair \in GameRows(game),
                                   rest \in FeatureLoop(ordered, i + 1) }

\* The frames create_feature_set(db), with no season filter, can return
FeatureFrames ==
    UNION { FeatureLoop(ordered, 1) :
              ordered \in OrderByDate({ g \in games : g.home_score # NULL }) }

create_feature_set ==
    /\ features_df' \in FeatureFrames
    /\ UNCHANGED <<store_vars, elo_vars, backtest_vars, predict_vars, api_vars>>

-----------------------------------------------------------------------------
(* Specification of the game log and the rating pass *)

EloInit ==
    /\ Init
    /\ elo_home_advantage \in {0, ELO_HOME_ADVANTAGE}

IngestScheduleRowNoBox ==
    \E game_date \in Dates, f \in Fixtures, row \in ScheduleRowsNoBox :
        fetch_historical_games_and_stats(game_date, f[1], f[2], row)

EloNext == IngestScheduleRowNoBox \/ calculate_elo_ratings

EloSpec == EloInit /\ [][EloNext]_vars

-----------------------------------------------------------------------------
(* Properties of the rating pass *)

\* The games the last pass visited: a pass stamps every game it visits and
\* ingestion stores new games unstamped
StampedGames == { g \in games : g.home_team_pregame_elo # NULL }

\* The team rows the last pass read
RatedTeams == { t \in teams : t.team_id \in DOMAIN elo_ratings }

InitialRating == ELO_INITIAL * RatingUnit

\* The rating team t holds just before game g of the game set G: INITIAL if no
\* game of t with a result precedes g, else what the latest such game p made
\* of the ratings its two teams held just before p
RECURSIVE PriorRating(_, _, _, _)
PriorRating(G, advantage, t, g) ==
    LET earlier == { h \in G : Completed(h) /\ Plays(h, t) /\ GameBefore(h, g) }
    IN  IF earlier = {}
        THEN InitialRating
        ELSE LET p == CHOOSE h \in earlier : \A x \in earlier \ {h} : GameBefore(x, h)
                 after == EloUpdate(PriorRating(G, advantage, p.home_team_id, p),
                                    PriorRating(G, advantage, p.away_team_id, p),
                                    advantage, p)
             IN  IF p.home_team_id = t THEN after.home ELSE after.away

PregameElo(g, t) ==
    IF g.home_team_id = t THEN g.home_team_pregame_elo ELSE g.away_team_pregame_elo

\* The rating team t shows after game g of the last pass: the stamp on its
\* next visited game, or the dictionary entry if g was its last game
RatingAfter(t, g) ==
    LET later == { h \in StampedGames : Plays(h, t) /\ GameBefore(g, h) }
    IN  IF later = {}
        THEN elo_ratings[t]
        ELSE PregameElo(CHOOSE h \in later : \A x \in later \ {h} : GameBefore(h, x), t)

\* C25: every result-bearing game the pass visited moved its two teams by
\* opposite amounts, whatever the home advantage, and the ratings of the
\* pass add up to the number of teams times the initial rating.
C25_RatingConservation ==
    elo_status = "ok" =>
        /\ \A g \in StampedGames :
             Completed(g) /\ g.home_team_id # g.away_team_id =>
                 RatingAfter(g.home_team_id, g) - PregameElo(g, g.home_team_id)
                   = 0 - (RatingAfter(g.away_team_id, g) - PregameElo(g, g.away_team_id))
        /\ SumFn(elo_ratings, DOMAIN elo_ratings)
             = Cardinality(DOMAIN elo_ratings) * InitialRating

\* C25 witness: with the home advantage set, three teams rated and a home
\* team that gained from a win.
C25_Witness ==
    /\ elo_status = "ok"
    /\ elo_home_advantage = ELO_HOME_ADVANTAGE
    /\ Cardinality(DOMAIN elo_ratings) = 3
    /\ \E g \in StampedGames :
         /\ Completed(g) /\ g.home_score > g.away_score
         /\ elo_ratings[g.home_team_id] > InitialRating
         /\ elo_ratings[g.away_team_id] < InitialRating

\* The game log with the stamps erased
Unstamped(G) ==
    { [g EXCEPT !.home_team_pregame_elo = NULL, !.away_team_pregame_elo = NULL] :
        g \in G }

\* C26: over a game log the last pass has stamped in full, a further pass
\* leaves every stamp and the rating dictionary as they are, and gives what
\* a pass over the same log without any stamps gives.
C26_RerunIdempotent ==
    (elo_status = "ok" /\ StampedGames = games) =>
        LET again == EloPass(teams, games, elo_home_advantage)
            fresh == EloPass(teams, Unstamped(games), elo_home_advantage)
        IN  /\ ~again.raised
            /\ again.games = games
            /\ again.elo_ratings = elo_ratings
            /\ fresh.games = games
            /\ fresh.elo_ratings = elo_ratings

\* C26 witness: a fully stamped log in which a later game carries a stamp
\* other than the initial rating.
C26_Witness ==
    /\ elo_status = "ok"
    /\ StampedGames = games
    /\ \E g \in games, h \in games :
         /\ Completed(h) /\ GameBefore(h, g)
         /\ g.home_team_pregame_elo # InitialRating

\* C2: a game without a recorded result changes no rating: taking any
\* result-less game out of the games the last pass visited gives a pass with
\* the same stamps on every other game and the same final rating per team.
C2_ScheduledGameFrame ==
    elo_status = "ok" =>
        \A s \in StampedGames :
            ~Completed(s) =>
                LET without == EloPass(RatedTeams, StampedGames \ {s}, elo_home_advantage)
                IN  /\ ~without.raised
                    /\ without.games = StampedGames \ {s}
                    /\ without.elo_ratings = elo_ratings

\* C2 witness: the last pass visited a game with only one score between two
\* result-bearing games of one of its teams, and that team's rating moved.
C2_Witness ==
    /\ elo_status = "ok"
    /\ \E s \in StampedGames : \E g \in StampedGames :
         /\ ~Completed(s) /\ s.home_score # NULL
         /\ Completed(g) /\ GameBefore(s, g)
         /\ Plays(g, s.home_team_id)
         /\ elo_ratings[s.home_team_id] # InitialRating

\* C3: a pass completes and stamps every game, with or without a result, with
\* the ratings its teams hold at that point of the (date, game_id) order:
\* exactly the updates of the team's earlier result-bearing games applied,
\* never the game's own result or a later game's.
C3_ChronologicalStamps ==
    [][ calculate_elo_ratings =>
          /\ elo_status' = "ok"
          /\ \A g \in games' :
               /\ g.home_team_pregame_elo =
                    PriorRating(games', elo_home_advantage, g.home_team_id, g)
               /\ g.away_team_pregame_elo =
                    PriorRating(games', elo_home_advantage, g.away_team_id, g) ]_vars

\* C3 witness: after a pass, a result-less game carries a stamp that differs
\* from the initial rating (an earlier result moved it), and an earlier game
\* of the same team still carries the initial rating.
C3_Witness ==
    /\ elo_status = "ok"
    /\ \E g \in StampedGames : \E h \in StampedGames :
         /\ ~Completed(g) /\ Completed(h) /\ GameBefore(h, g)
         /\ Plays(h, g.home_team_id)
         /\ g.home_team_pregame_elo # InitialRating
         /\ PregameElo(h, g.home_team_id) = InitialRating
         /\ g.date = h.date

\* C4: with no home advantage, a decisive game between two teams of equal
\* pre-game rating moves the winner up by K/2 and the loser down by K/2.
C4_RatingSymmetry ==
    (elo_status = "ok" /\ elo_home_advantage = 0) =>
        \A g \in StampedGames :
            ( /\ Completed(g)
              /\ g.home_score # g.away_score
              /\ g.home_team_pregame_elo = g.away_team_pregame_elo ) =>
                LET winner == IF g.home_score > g.away_score
                              THEN g.home_team_id ELSE g.away_team_id
                    loser == IF g.home_score > g.away_score
                             THEN g.away_team_id ELSE g.home_team_id
                    half_k == (ELO_K_FACTOR * RatingUnit) \div 2
                IN  /\ RatingAfter(winner, g) = PregameElo(g, winner) + half_k
                    /\ RatingAfter(loser, g) = PregameElo(g, loser) - half_k

\* C4 witness: with no home advantage, the pass has visited a game won by
\* the visitor between two teams of equal pre-game rating.
C4_Witness ==
    /\ elo_status = "ok" /\ elo_home_advantage = 0
    /\ \E g \in StampedGames :
         /\ Completed(g) /\ g.away_score > g.home_score
         /\ g.home_team_pregame_elo = g.away_team_pregame_elo
         /\ elo_ratings[g.away_team_id] = InitialRating + 10 * RatingUnit

\* C5: the pass never fails on a team it meets for the first time: no pass
\* ends in KeyError, and a team's first game in (date, game_id) order is
\* stamped with ELO_INITIAL for that team.
C5_UnseenTeamDefault ==
    /\ elo_status # "KeyError"
    /\ \A g \in StampedGames : \A t \in {g.home_team_id, g.away_team_id} :
         { h \in StampedGames : Plays(h, t) /\ GameBefore(h, g) } = {}
            => PregameElo(g, t) = InitialRating

\* C5 witness: a pass has completed over a game in which one team appears for
\* the first time against a team whose rating has already moved.
C5_Witness ==
    /\ elo_status = "ok"
    /\ \E g \in StampedGames : \E t \in {g.home_team_id, g.away_team_id} :
         /\ { h \in StampedGames : Plays(h, t) /\ GameBefore(h, g) } = {}
         /\ PregameElo(g, t) = InitialRating
         /\ g.home_team_pregame_elo # g.away_team_pregame_elo

\* C6: once a pass has stamped every stored game, get_current_elo returns for
\* every team the rating the pass holds for it after its last played game
\* (ELO_INITIAL for a team with no stamped game).
C6_CurrentEloIsFoldRating ==
    (elo_status = "ok" /\ StampedGames = games) =>
        \A t \in DOMAIN elo_ratings :
            get_current_elo(t) = { elo_ratings[t] }

-----------------------------------------------------------------------------
(* Odds conversion: backtesting.py *)

moneyline_to_implied_prob_unsigned(moneyline) ==
    Div(100, Abs(moneyline) + 100)

moneyline_to_implied_prob(moneyline) ==
    IF moneyline > 0
    THEN Div(100, moneyline + 100)
    ELSE Div(Abs(moneyline), Abs(moneyline) + 100)

\* Defined for moneyline # 0 (100 / abs(0) raises ZeroDivisionError)
\* The winnings alone, without the stake handed back
moneyline_to_payout_without_stake(moneyline, bet_amount) ==
    IF moneyline > 0
    THEN FracMul(bet_amount, Div(moneyline, 100))
    ELSE FracMul(bet_amount, Div(100, Abs(moneyline)))

moneyline_to_payout(moneyline, bet_amount) ==
    IF moneyline > 0
    THEN FracMul(bet_amount, FracAdd(Frac(1), Div(moneyline, 100)))
    ELSE FracMul(bet_amount, FracAdd(Frac(1), Div(100, Abs(moneyline))))

-----------------------------------------------------------------------------
(* Odds ingestion from a CSV file: data_ingestion.py, fetch_historical_odds *)

\* The table after loading the rows of csv from position i on: a row whose
\* game is not stored is skipped, every other row is added under the next id
RECURSIVE fetch_historical_odds(_, _, _)
fetch_historical_odds(O, csv, i) ==
    IF i > Len(csv)
    THEN O
    ELSE LET row == csv[i]
         IN  IF ~(\E g \in games : g.game_id = row.game_id)
             THEN fetch_historical_odds(O, csv, i + 1)
             ELSE fetch_historical_odds(
                    O \cup { [ id |-> Cardinality(O) + 1,
                               game_id |-> row.game_id,
                               bookmaker |-> row.bookmaker,
                               home_team_moneyline |-> row.home_moneyline,
                               away_team_moneyline |-> row.away_moneyline ] },
                    csv, i + 1)

-----------------------------------------------------------------------------
(* The betting simulation: backtesting.py, run_profitability_simulation *)

edge_threshold == Div(VALUE_EDGE_THRESHOLD_PCT, 100)

bet_amount == Frac(DEFAULT_BET_AMOUNT)

\* The win probabilities the classifier may give a row
ModelProbs == { Div(13, 20), Div(61, 110), Div(41, 100), Div(43, 100) }

\* db.query(Odds).filter(...).all() carries no ORDER BY: the lists the store
\* may return for a set of rows
RECURSIVE QueryAll(_)
QueryAll(rows) ==
    IF rows = {}
    THEN { <<>> }
    ELSE UNION { { <<r>> \o rest : rest \in QueryAll(rows \ {r}) } : r \in rows }

\* odds_dict after the loop over odds_query
OddsLookup(odds_query) ==
    [ game_id \in { odds_query[i].game_id : i \in 1..Len(odds_query) } |->
        SelectSeq(odds_query, LAMBDA o : o.game_id = game_id) ]

TestSeasonRows(df) == SelectSeq(df, LAMBDA row : row.season = TEST_SEASON)

\* The function up to the loop: the season filter, the early return, the
\* classifier's probabilities and the odds lookup
run_profitability_simulation_begin ==
    /\ sim_pc = "idle"
    /\ test_df' = TestSeasonRows(features_df)
    /\ IF Len(test_df') = 0
       THEN /\ results' = [returned |-> "None"]
            /\ sim_pc' = "done"
            /\ model_win_proba' = << >>
            /\ odds_dict' = << >>
       ELSE /\ model_win_proba' \in [1..Len(test_df') -> ModelProbs]
            /\ \E odds_query \in
                   QueryAll({ o \in odds :
                                \E i \in 1..Len(test_df') :
                                    test_df'[i].game_id = o.game_id }) :
                 odds_dict' = OddsLookup(odds_query)
            /\ results' = [returned |-> "nothing"]
            /\ sim_pc' = "loop"
    /\ row_pos' = 1
    /\ total_bets' = 0
    /\ total_won' = 0
    /\ total_profit' = Zero
    /\ bets_placed' = << >>
    /\ UNCHANGED <<store_vars, elo_vars, features_df, predict_vars, api_vars>>

SideMoneyline(odds_row, is_home) ==
    IF is_home = 1 THEN odds_row.home_team_moneyline
                   ELSE odds_row.away_team_moneyline

\* edge >= edge_threshold
IsValueBetAtThreshold(edge, threshold) == ~FracGT(threshold, edge)

\* edge > edge_threshold
IsValueBet(edge, threshold) == FracGT(edge, threshold)

\* A winning bet booked at its payout
BetOutcomePayoutAsProfit(actual_win, moneyline, stake) ==
    IF actual_win = 1
    THEN [ profit |-> moneyline_to_payout(moneyline, stake), won |-> 1,
           result |-> "WIN" ]
    ELSE [ profit |-> FracSub(Zero, stake), won |-> 0, result |-> "LOSS" ]

\* Every bet counted as won
BetOutcomeAlwaysWon(actual_win, moneyline, stake) ==
    IF actual_win = 1
    THEN [ profit |-> FracSub(moneyline_to_payout(moneyline, stake), stake),
           won |-> 1, result |-> "WIN" ]
    ELSE [ profit |-> FracSub(Zero, stake), won |-> 1, result |-> "LOSS" ]

\* The profit, the increment of total_won and the result of a placed bet
BetOutcome(actual_win, moneyline, stake) ==
    IF actual_win = 1
    THEN [ profit |-> FracSub(moneyline_to_payout(moneyline, stake), stake),
           won |-> 1, result |-> "WIN" ]
    ELSE [ profit |-> FracSub(Zero, stake), won |-> 0, result |-> "LOSS" ]

\* One iteration of the loop over test_df
simulate_row ==
    /\ sim_pc = "loop"
    /\ row_pos <= Len(test_df)
    /\ row_pos' = row_pos + 1
    /\ LET row == test_df[row_pos]
           game_id == row.game_id
           model_prob == model_win_proba[row_pos]
       IN  IF game_id \notin DOMAIN odds_dict
           THEN UNCHANGED <<total_bets, total_won, total_profit, bets_placed>>
           ELSE LET quote == odds_dict[game_id][1]
                    moneyline == SideMoneyline(quote, row.is_home)
                    implied_prob == moneyline_to_implied_prob(moneyline)
                    edge == FracSub(model_prob, implied_prob)
                    outcome == BetOutcome(row.target_did_win, moneyline, bet_amount)
                IN  IF moneyline = NULL \/ ~IsValueBet(edge, edge_threshold)
                    THEN UNCHANGED <<total_bets, total_won, total_profit, bets_placed>>
                    ELSE /\ total_bets' = total_bets + 1
                         /\ total_won' = total_won + outcome.won
                         /\ total_profit' = FracAdd(total_profit, outcome.profit)
                         /\ bets_placed' = Append(bets_placed,
                              [ game_id |-> game_id,
                                team_id |-> row.team_id,
                                opponent_id |-> row.opponent_id,
                                is_home |-> row.is_home,
                                model_prob |-> model_prob,
                                implied_prob |-> implied_prob,
                                edge |-> edge,
                                moneyline |-> moneyline,
                                result |-> outcome.result,
                                profit |-> outcome.profit ])
    /\ UNCHANGED <<test_df, model_win_proba, odds_dict, results, sim_pc>>
    /\ UNCHANGED <<store_vars, elo_vars, features_df, predict_vars, api_vars>>

\* The metrics and the returned dictionary
run_profitability_simulation_return ==
    /\ sim_pc = "loop"
    /\ row_pos > Len(test_df)
    /\ LET win_rate == IF total_bets > 0
                       THEN FracMul(Div(total_won, total_bets), Frac(100))
                       ELSE Zero
           roi == IF total_bets > 0
                  THEN FracMul(FracDiv(total_profit,
                                       FracMul(Frac(total_bets), bet_amount)),
                               Frac(100))
                  ELSE Zero
       IN  results' = [ returned |-> "dict",
                        total_bets |-> total_bets,
                        total_won |-> total_won,
                        total_lost |-> total_bets - total_won,
                        win_rate |-> win_rate,
                        total_profit |-> total_profit,
                        roi |-> roi,
                        bets_placed |-> bets_placed ]
    /\ sim_pc' = "done"
    /\ UNCHANGED <<test_df, model_win_proba, odds_dict, row_pos, total_bets,
                   total_won, total_profit, bets_placed>>
    /\ UNCHANGED <<store_vars, elo_vars, features_df, predict_vars, api_vars>>

-----------------------------------------------------------------------------
(* Specification of the betting simulation *)

\* Completed games of two teams: a home win and an away win in the test
\* season, a level game the season before
BacktestGames ==
    { [ game_id |-> _create_game_id(r[1], r[2], r[3]), date |-> r[1],
        home_team_id |-> r[2], away_team_id |-> r[3],
        home_score |-> r[4], away_score |-> r[5],
        season |-> FeedSeason(r[1]),
        home_team_pregame_elo |-> NULL, away_team_pregame_elo |-> NULL ] :
        r \in { <<2, 1, 2, 2, 1>>, <<2, 2, 1, 1, 2>>, <<1, 1, 2, 1, 1>> } }

\* Rows of the odds file: two bookmakers quoting the first game (one without
\* an away line), one quoting the second
CsvRow(game_id, bookmaker, home_moneyline, away_moneyline) ==
    [ game_id |-> game_id, bookmaker |-> bookmaker,
      home_moneyline |-> home_moneyline, away_moneyline |-> away_moneyline ]

OddsCsvFiles ==
    LET a1 == CsvRow(<<2, 1, 2>>, "book1", 0 - 150, NULL)
        a2 == CsvRow(<<2, 1, 2>>, "book2", 130, 120)
        b1 == CsvRow(<<2, 2, 1>>, "book1", 120, 150)
    IN  { << >>, <<a1, b1>>, <<a1, a2, b1>>, <<a2, a1>>, <<b1>> }

\* The state run_backtest calls the simulation in: the games rated, the frame
\* built, an odds file loaded
BacktestInit ==
    /\ teams = _get_or_create_team(_get_or_create_team({}, 1), 2)
    /\ elo_home_advantage = ELO_HOME_ADVANTAGE
    /\ games \in { EloPass(teams, G, elo_home_advantage).games :
                     G \in SUBSET BacktestGames }
    /\ box_scores = {}
    /\ elo_ratings = EloPass(teams, games, elo_home_advantage).elo_ratings
    /\ elo_status = "ok"
    /\ odds \in { fetch_historical_odds({}, csv, 1) : csv \in OddsCsvFiles }
    /\ features_df \in FeatureFrames
    /\ model_artifacts = {"best_model.joblib", "data_scaler.joblib"}
    /\ Idle

BacktestNext ==
    \/ run_profitability_simulation_begin
    \/ simulate_row
    \/ run_profitability_simulation_return

BacktestSpec == BacktestInit /\ [][BacktestNext]_vars

-----------------------------------------------------------------------------
(* Properties of the odds conversion and the betting simulation *)

\* The moneylines and stakes the conversion is examined on
MoneylineSamples ==
    ((0 - 12)..12 \ {0}) \cup
    UNION { {m, 0 - m} : m \in {100, 105, 110, 120, 130, 150, 200, 250, 1000} }

StakeSamples == {1, 50, 100}

\* r is 100 / (m + 100) for m > 0 and |m| / (|m| + 100) for m < 0
IsImpliedProbability(r, m) ==
    /\ r.den > 0
    /\ IF m > 0 THEN r.num * (m + 100) = 100 * r.den
                ELSE r.num * (Abs(m) + 100) = Abs(m) * r.den

\* r is stake * (1 + m / 100) for m > 0 and stake * (1 + 100 / |m|) for m < 0
IsPayout(r, m, stake) ==
    /\ r.den > 0
    /\ IF m > 0 THEN r.num * 100 = stake * (100 + m) * r.den
                ELSE r.num * Abs(m) = stake * (Abs(m) + 100) * r.den

\* |r - cents / 100| <= tolerance / 100
WithinCents(r, cents, tolerance) ==
    Abs(r.num * 100 - cents * r.den) <= tolerance * r.den

\* The line of the quote the simulation uses for a row: the first quote the
\* store returned for the row's game, NULL if none was returned
SelectedLine(row) ==
    IF row.game_id \notin DOMAIN odds_dict THEN NULL
    ELSE IF row.is_home = 1 THEN odds_dict[row.game_id][1].home_team_moneyline
                            ELSE odds_dict[row.game_id][1].away_team_moneyline

\* p - implied(m) > VALUE_EDGE_THRESHOLD, for a probability p and a line m
EdgeExceedsThreshold(p, m) ==
    LET i_num == IF m > 0 THEN 100 ELSE Abs(m)
        i_den == Abs(m) + 100
    IN  100 * (p.num * i_den - i_num * p.den) > VALUE_EDGE_THRESHOLD_PCT * p.den * i_den

LedgerRow(entry) ==
    CHOOSE k \in 1..Len(test_df) :
        test_df[k].game_id = entry.game_id /\ test_df[k].is_home = entry.is_home

RECURSIVE ProfitSum(_)
ProfitSum(ledger) ==
    IF ledger = << >> THEN Zero
    ELSE LET rest == ProfitSum(Tail(ledger))
             p == Head(ledger).profit
         IN  [num |-> p.num * rest.den + rest.num * p.den, den |-> p.den * rest.den]

SameFraction(a, b) == a.den > 0 /\ b.den > 0 /\ a.num * b.den = b.num * a.den

\* C13: moneyline_to_implied_prob(m) is 100/(m+100) for m > 0 and
\* |m|/(|m|+100) for m < 0, and moneyline_to_payout(m, stake) is
\* stake*(1+m/100) for m > 0 and stake*(1+100/|m|) for m < 0, for every
\* non-zero line examined and for the line of every booked bet; +150 gives
\* 0.4 and 250 on a stake of 100, -150 gives 0.6 and 166.67 within 0.01.
C13_OddsConversion ==
    /\ \A m \in MoneylineSamples :
         /\ IsImpliedProbability(moneyline_to_implied_prob(m), m)
         /\ \A stake \in StakeSamples :
              IsPayout(moneyline_to_payout(m, Frac(stake)), m, stake)
    /\ moneyline_to_implied_prob(150) = [num |-> 2, den |-> 5]
    /\ moneyline_to_payout(150, Frac(100)) = Frac(250)
    /\ moneyline_to_implied_prob(0 - 150) = [num |-> 3, den |-> 5]
    /\ WithinCents(moneyline_to_payout(0 - 150, Frac(100)), 16667, 1)
    /\ \A k \in 1..Len(bets_placed) :
         IsImpliedProbability(bets_placed[k].implied_prob, bets_placed[k].moneyline)

\* C13 witness: the ledger holds a won bet at -150 (implied 0.6, profit
\* 166.67 - 100) and a bet at a positive line.
C13_Witness ==
    /\ \E k \in 1..Len(bets_placed) :
         /\ bets_placed[k].moneyline = 0 - 150
         /\ bets_placed[k].implied_prob = [num |-> 3, den |-> 5]
         /\ bets_placed[k].result = "WIN"
         /\ WithinCents(bets_placed[k].profit, 6667, 1)
    /\ \E k \in 1..Len(bets_placed) : bets_placed[k].moneyline > 0

\* C28: for every non-zero line examined and every stake, the implied
\* probability times the payout is the stake, the implied probability lies
\* strictly between 0 and 1 and the payout exceeds the stake; the same holds
\* for the line and the implied probability of every booked bet.
C28_FairOddsIdentity ==
    /\ \A m \in MoneylineSamples : \A stake \in StakeSamples :
         LET implied == moneyline_to_implied_prob(m)
             payout == moneyline_to_payout(m, Frac(stake))
         IN  /\ SameFraction(FracMul(implied, payout), Frac(stake))
             /\ implied.den > 0 /\ 0 < implied.num /\ implied.num < implied.den
             /\ payout.den > 0 /\ payout.num > stake * payout.den
    /\ \A k \in 1..Len(bets_placed) :
         LET payout == moneyline_to_payout(bets_placed[k].moneyline, bet_amount)
         IN  /\ SameFraction(FracMul(bets_placed[k].implied_prob, payout), bet_amount)
             /\ payout.num * bet_amount.den > bet_amount.num * payout.den

\* C28 witness: a bet booked at +120, implied 5/11, whose payout of 220 on
\* the stake of 100 gives the stake back when multiplied by 5/11.
C28_Witness ==
    \E k \in 1..Len(bets_placed) :
        /\ bets_placed[k].moneyline = 120
        /\ bets_placed[k].implied_prob = [num |-> 5, den |-> 11]
        /\ moneyline_to_payout(120, bet_amount) = Frac(220)
        /\ FracMul(bets_placed[k].implied_prob, Frac(220)) = Frac(100)

C15_BetProfit ==
    \A k \in 1..Len(bets_placed) :
        LET entry == bets_placed[k]
            row == test_df[LedgerRow(entry)]
            payout == [ num |-> entry.profit.num + DEFAULT_BET_AMOUNT * entry.profit.den,
                        den |-> entry.profit.den ]
        IN  /\ entry.moneyline = SelectedLine(row)
            /\ IF row.target_did_win = 1
               THEN /\ entry.result = "WIN"
                    /\ IsPayout(payout, entry.moneyline, DEFAULT_BET_AMOUNT)
                    /\ entry.profit.num > 0
               ELSE /\ entry.result = "LOSS"
                    /\ SameFraction(entry.profit, Frac(0 - DEFAULT_BET_AMOUNT))

\* C15 witness: the ledger holds a won bet on an away row at a positive line
\* and a lost bet on a home row.
C15_Witness ==
    /\ \E k \in 1..Len(bets_placed) :
         /\ bets_placed[k].is_home = 0
         /\ bets_placed[k].result = "WIN"
         /\ bets_placed[k].moneyline = 150
         /\ bets_placed[k].profit = Frac(150)
    /\ \E k \in 1..Len(bets_placed) :
         bets_placed[k].is_home = 1 /\ bets_placed[k].result = "LOSS"

\* C16: a finished simulation returns a result in which win_rate is
\* total_won / total_bets * 100 and roi is total_profit / (total_bets *
\* bet_amount) * 100 if a bet was placed, and in which total_bets, win_rate
\* and roi are 0 if none was.
C16_Metrics ==
    sim_pc = "done" =>
        /\ results.returned = "dict"
        /\ IF bets_placed # << >>
           THEN /\ results.win_rate.num * results.total_bets
                     = 100 * results.total_won * results.win_rate.den
                /\ results.roi.num * results.total_bets * DEFAULT_BET_AMOUNT
                     * results.total_profit.den
                     = 100 * results.total_profit.num * results.roi.den
           ELSE /\ results.total_bets = 0
                /\ results.win_rate = Zero
                /\ results.roi = Zero

\* C17: during and after the simulation the ledger holds one entry per
\* placed bet, each for a different row already passed; total_bets is its
\* length, total_won the number of its WIN entries, total_profit the sum of
\* its profits; the returned result repeats them with total_bets = total_won
\* + total_lost; and a ledger of a won bet at -150 and a lost bet at +120
\* gives a total profit of -33.33 and an roi of -16.67 within 0.01.
C17_LedgerAggregation ==
    /\ total_bets = Len(bets_placed)
    /\ total_won = Cardinality({ k \in 1..Len(bets_placed) :
                                   bets_placed[k].result = "WIN" })
    /\ SameFraction(total_profit, ProfitSum(bets_placed))
    /\ \A k \in 1..Len(bets_placed) :
         /\ LedgerRow(bets_placed[k]) < row_pos
         /\ \A l \in 1..Len(bets_placed) :
              LedgerRow(bets_placed[k]) = LedgerRow(bets_placed[l]) => k = l
    /\ results.returned = "dict" =>
         /\ results.bets_placed = bets_placed
         /\ results.total_bets = Len(bets_placed)
         /\ results.total_won = total_won
         /\ results.total_bets = results.total_won + results.total_lost
         /\ SameFraction(results.total_profit, ProfitSum(bets_placed))
         /\ ( /\ Len(bets_placed) = 2
              /\ bets_placed[1].moneyline = 0 - 150 /\ bets_placed[1].result = "WIN"
              /\ bets_placed[2].moneyline = 120 /\ bets_placed[2].result = "LOSS" ) =>
                /\ WithinCents(results.total_profit, 0 - 3333, 1)
                /\ WithinCents(results.roi, 0 - 1667, 1)

\* C17 witness: the simulation returned after three rows with a quote: a won
\* bet at -150 with edge 0.05, a lost bet at +120 with edge 0.10, a row with
\* edge 0.01 left out; 2 bets, 1 won, total profit -100/3, roi -50/3.
C17_Witness ==
    /\ results.returned = "dict"
    /\ results.total_bets = 2
    /\ results.total_won = 1
    /\ results.total_profit = [num |-> 0 - 100, den |-> 3]
    /\ results.roi = [num |-> 0 - 50, den |-> 3]
    /\ bets_placed[1].moneyline = 0 - 150 /\ bets_placed[1].result = "WIN"
    /\ bets_placed[1].edge = [num |-> 1, den |-> 20]
    /\ bets_placed[2].moneyline = 120 /\ bets_placed[2].result = "LOSS"
    /\ bets_placed[2].edge = [num |-> 1, den |-> 10]
    /\ \E k \in 1..Len(test_df) :
         /\ SelectedLine(test_df[k]) = 150
         /\ model_win_proba[k] = [num |-> 41, den |-> 100]

\* C18: the quote used for a game is fixed by the stored quotes: whatever
\* order the store returns them in, the simulation starts with the same
\* first quote for every game.
C18_DeterministicQuote ==
    [][ run_profitability_simulation_begin =>
          \A order \in QueryAll({ o \in odds : o.game_id \in DOMAIN odds_dict' }) :
              \A game_id \in DOMAIN odds_dict' :
                  OddsLookup(order)[game_id][1] = odds_dict'[game_id][1] ]_vars

-----------------------------------------------------------------------------
(* Specification of the training rows *)

FeatureInit ==
    /\ Init
    /\ elo_home_advantage = ELO_HOME_ADVANTAGE

\* The schedule rows of two teams meeting home and away: a row with only the
\* home score, a home win and a level game with their box scores, an away win
\* whose box scores the feed did not have
FeatureFixtures == { <<1, 2>>, <<2, 1>> }

FeatureScheduleRows ==
    { row \in ScheduleRows :
        \/ row.VISITOR_PTS = NULL /\ row.HOME_PTS # NULL
        \/ row.HOME_PTS >= row.VISITOR_PTS /\ row.box = {"home", "visitor"}
        \/ row.HOME_PTS < row.VISITOR_PTS /\ row.VISITOR_PTS # NULL /\ row.box = {} }

IngestFeatureRow ==
    \E game_date \in Dates, f \in FeatureFixtures, row \in FeatureScheduleRows :
        fetch_historical_games_and_stats(game_date, f[1], f[2], row)

FeatureNext == IngestFeatureRow \/ calculate_elo_ratings \/ create_feature_set

FeatureSpec == FeatureInit /\ [][FeatureNext]_vars

-----------------------------------------------------------------------------
(* Properties of the training rows *)

RowsOf(df, game_id, is_home) ==
    { i \in 1..Len(df) : df[i].game_id = game_id /\ df[i].is_home = is_home }

\* C11: the frame create_feature_set returns holds, for every game with both
\* scores, exactly one row with is_home = 1 and exactly one with is_home = 0,
\* and no row of any other game: twice as many rows as completed games.
C11_TwoRowsPerCompletedGame ==
    [][ create_feature_set =>
          /\ Len(features_df') = 2 * Cardinality({ g \in games : Completed(g) })
          /\ \A g \in games :
               IF Completed(g)
               THEN /\ Cardinality(RowsOf(features_df', g.game_id, 1)) = 1
                    /\ Cardinality(RowsOf(features_df', g.game_id, 0)) = 1
               ELSE /\ RowsOf(features_df', g.game_id, 1) = {}
                    /\ RowsOf(features_df', g.game_id, 0) = {} ]_vars

\* C11 witness: the frame is one create_feature_set returns for a store
\* holding a completed game and a game with only its home score.
C11_Witness ==
    /\ features_df \in FeatureFrames
    /\ Len(features_df) = 2
    /\ \E g \in games : g.home_score # NULL /\ g.away_score = NULL
    /\ \E g \in games : Completed(g) /\ RowsOf(features_df, g.game_id, 0) # {}

-----------------------------------------------------------------------------
(* The prediction request: predict.py *)

\* abs(home_win_prob - 0.5) >= 0.2 / >= 0.1
ConfidenceLabelInclusive(home_win_prob) ==
    LET distance == FracAbs(FracSub(home_win_prob, Div(1, 2)))
    IN  IF ~FracGT(Div(2, 10), distance) THEN "High"
        ELSE IF ~FracGT(Div(1, 10), distance) THEN "Medium"
        ELSE "Low"

\* The confidence of generate_prediction
ConfidenceLabel(home_win_prob) ==
    LET distance == FracAbs(FracSub(home_win_prob, Div(1, 2)))
    IN  IF FracGT(distance, Div(2, 10)) THEN "High"
        ELSE IF FracGT(distance, Div(1, 10)) THEN "Medium"
        ELSE "Low"

\* The recommendation made as soon as the home line is given
ValueRecommendationHomeLineOnly(home_win_prob, away_win_prob, home_moneyline, away_moneyline) ==
    IF home_moneyline # NULL
    THEN LET home_edge == FracSub(home_win_prob,
                                  moneyline_to_implied_prob(home_moneyline))
             away_edge == FracSub(away_win_prob,
                                  moneyline_to_implied_prob(away_moneyline))
         IN  IF FracGT(home_edge, edge_threshold) THEN "Bet Home"
             ELSE IF FracGT(away_edge, edge_threshold) THEN "Bet Away"
             ELSE "No Value"
    ELSE "No Value"

\* value_recommendation of generate_prediction_with_value, without the
\* team name and the edge its text goes on to quote
ValueRecommendation(home_win_prob, away_win_prob, home_moneyline, away_moneyline) ==
    IF home_moneyline # NULL /\ away_moneyline # NULL
    THEN LET home_edge == FracSub(home_win_prob,
                                  moneyline_to_implied_prob(home_moneyline))
             away_edge == FracSub(away_win_prob,
                                  moneyline_to_implied_prob(away_moneyline))
         IN  IF FracGT(home_edge, edge_threshold) THEN "Bet Home"
             ELSE IF FracGT(away_edge, edge_threshold) THEN "Bet Away"
             ELSE "No Value"
    ELSE "No Value"

\* The home win probabilities the classifier may answer with, in percent
HomeWinPercents == {20, 29, 30, 31, 40, 41, 50, 59, 60, 61, 70, 71, 80}

\* The lines a caller may pass (NULL: none given)
RequestMoneylines == {NULL, 0 - 150, 120, 150}

\* What load_model_and_scaler does with the files present
load_model_and_scaler(artifacts) ==
    IF "best_model.joblib" \notin artifacts THEN "FileNotFoundError"
    ELSE IF "data_scaler.joblib" \notin artifacts THEN "FileNotFoundError"
    ELSE "loaded"

\* The team rows get_team_by_name can return for a name (none: it raises
\* ValueError): rows of that team_name, else rows of that abbreviation.
\* Names are the numbers abbreviations are written as, which upper() leaves
\* as they are.
get_team_by_name(T, team_name) ==
    IF \E t \in T : t.team_name = team_name
    THEN { t \in T : t.team_name = team_name }
    ELSE { t \in T : t.abbreviation = team_name }

\* The dictionary generate_prediction returns for two stored teams when the
\* classifier answers home_win_prob for their feature vector (the vector
\* itself, returned for debugging, is left out)
PredictionDict(home_team, away_team, home_win_prob) ==
    LET away_win_prob == FracSub(Frac(1), home_win_prob)
    IN  [ returned |-> "dict",
          home_team |-> home_team.team_name,
          away_team |-> away_team.team_name,
          home_win_probability |-> home_win_prob,
          away_win_probability |-> away_win_prob,
          confidence |-> ConfidenceLabel(home_win_prob),
          predicted_winner |-> IF FracGT(home_win_prob, Div(1, 2))
                               THEN home_team.team_name
                               ELSE away_team.team_name ]

\* The try block of generate_prediction: the dictionaries it can return, or
\* the exception it raises.  answer is what the scaler and the classifier do
\* with the feature vector: a home win probability in percent, or raising.
PredictionBody(home_team_name, away_team_name, answer) ==
    IF load_model_and_scaler(model_artifacts) # "loaded"
    THEN { [returned |-> "FileNotFoundError"] }
    ELSE IF get_team_by_name(teams, home_team_name) = {}
            \/ get_team_by_name(teams, away_team_name) = {}
    THEN { [returned |-> "ValueError"] }
    ELSE IF answer.raises
    THEN { [returned |-> "Exception"] }
    ELSE { PredictionDict(home_team, away_team, Div(answer.percent, 100)) :
             home_team \in get_team_by_name(teams, home_team_name),
             away_team \in get_team_by_name(teams, away_team_name) }

\* The session handling without the finally clause: the session is closed
\* only when the body returned
SessionClosedOnReturnOnly(db, outcome) ==
    [ passed |-> db # "None",
      opened |-> db = "None",
      closed |-> db = "None" /\ outcome.returned = "dict" ]

\* The session of a generate_prediction call: db is "None" or the caller's
\* "session"; close_db is set when the function opens one itself, and the
\* finally clause closes the session if close_db
SessionAfter(db, outcome) ==
    LET close_db == db = "None"
    IN  [ passed |-> db # "None",
          opened |-> db = "None",
          closed |-> close_db ]

\* generate_prediction: what it returns or raises, and what became of the
\* session
generate_prediction(home_team_name, away_team_name, db, answer) ==
    { [ outcome |-> outcome, session |-> SessionAfter(db, outcome) ] :
        outcome \in PredictionBody(home_team_name, away_team_name, answer) }

\* The result of generate_prediction_with_value given the call of
\* generate_prediction it made
WithValue(call, home_moneyline, away_moneyline) ==
    IF call.outcome.returned # "dict"
    THEN call.outcome
    ELSE [ returned |-> "dict",
           home_team |-> call.outcome.home_team,
           away_team |-> call.outcome.away_team,
           home_win_probability |-> call.outcome.home_win_probability,
           away_win_probability |-> call.outcome.away_win_probability,
           confidence |-> call.outcome.confidence,
           predicted_winner |-> call.outcome.predicted_winner,
           value_bet_recommendation |->
               ValueRecommendation(call.outcome.home_win_probability,
                                   call.outcome.away_win_probability,
                                   home_moneyline, away_moneyline) ]

generate_prediction_with_value(home_team_name, away_team_name, home_moneyline, away_moneyline, db, answer) ==
    /\ \E call \in generate_prediction(home_team_name, away_team_name, db, answer) :
         /\ prediction' = WithValue(call, home_moneyline, away_moneyline)
         /\ db_session' = call.session
    /\ request' = [ made |-> TRUE,
                    home_team_name |-> home_team_name,
                    away_team_name |-> away_team_name,
                    home_moneyline |-> home_moneyline,
                    away_moneyline |-> away_moneyline ]
    /\ http_status' = 0
    /\ UNCHANGED <<store_vars, elo_vars, features_df, backtest_vars, model_artifacts, api_vars>>

\* The status an exception leaving the try block of predict_game is turned
\* into, with a way NotFound and MissingArtifact could be confused
HttpStatusOfSwapped(returned) ==
    IF returned = "dict" THEN 200
    ELSE IF returned = "FileNotFoundError" THEN 404
    ELSE IF returned = "ValueError" THEN 503
    ELSE 500

\* The status of the response of predict_game
HttpStatusOf(returned) ==
    IF returned = "dict" THEN 200
    ELSE IF returned = "ValueError" THEN 404
    ELSE IF returned = "FileNotFoundError" THEN 503
    ELSE 500

\* POST /predict: the request's session comes from get_db_connection
predict_game(home_team_name, away_team_name, home_moneyline, away_moneyline, answer) ==
    /\ \E call \in generate_prediction(home_team_name, away_team_name, "session", answer) :
         LET result ==
               IF home_moneyline # NULL /\ away_moneyline # NULL
               THEN WithValue(call, home_moneyline, away_moneyline)
               ELSE IF call.outcome.returned # "dict"
               THEN call.outcome
               ELSE [ returned |-> "dict",
                      home_team |-> call.outcome.home_team,
                      away_team |-> call.outcome.away_team,
                      home_win_probability |-> call.outcome.home_win_probability,
                      away_win_probability |-> call.outcome.away_win_probability,
                      confidence |-> call.outcome.confidence,
                      predicted_winner |-> call.outcome.predicted_winner,
                      value_bet_recommendation |-> "None" ]
         IN  /\ prediction' = result
             /\ db_session' = call.session
             /\ http_status' = HttpStatusOf(result.returned)
    /\ request' = [ made |-> TRUE,
                    home_team_name |-> home_team_name,
                    away_team_name |-> away_team_name,
                    home_moneyline |-> home_moneyline,
                    away_moneyline |-> away_moneyline ]
    /\ UNCHANGED <<store_vars, elo_vars, features_df, backtest_vars, model_artifacts, api_vars>>

-----------------------------------------------------------------------------
(* Specification of the prediction request *)

\* The classifier's answers: a home win probability in percent
ModelAnswers == { [raises |-> FALSE, percent |-> n] : n \in HomeWinPercents }

\* The names requests are made with: the two stored teams and an unknown one
RequestNames == {1, 2, 3}

\* Fewer answers and lines for the requests that are about failures; the
\* scaler or the classifier may also raise
RequestAnswers ==
    { [raises |-> FALSE, percent |-> 40], [raises |-> FALSE, percent |-> 70],
      [raises |-> TRUE, percent |-> 0] }

RequestLines == {NULL, 120}

\* The store the requests are served from: two teams and last season's game
\* between them, the trained model and scaler in place
PredictInit ==
    /\ teams = _get_or_create_team(_get_or_create_team({}, 1), 2)
    /\ games = { g \in BacktestGames : g.season = VAL_SEASON }
    /\ box_scores = {}
    /\ odds = {}
    /\ elo_ratings = << >>
    /\ elo_status = "none"
    /\ elo_home_advantage = ELO_HOME_ADVANTAGE
    /\ features_df = << >>
    /\ model_artifacts = {"best_model.joblib", "data_scaler.joblib"}
    /\ Idle

PredictRequest ==
    \E f \in FeatureFixtures, home_moneyline \in RequestMoneylines,
       away_moneyline \in RequestMoneylines, answer \in ModelAnswers :
        generate_prediction_with_value(f[1], f[2], home_moneyline, away_moneyline,
                                       "None", answer)

PredictNext == PredictRequest

PredictSpec == PredictInit /\ [][PredictNext]_vars

\* Requests against a deployment where the model or the scaler may not
\* have been persisted yet
RequestInit ==
    /\ teams = _get_or_create_team(_get_or_create_team({}, 1), 2)
    /\ games = { g \in BacktestGames : g.season = VAL_SEASON }
    /\ box_scores = {}
    /\ odds = {}
    /\ elo_ratings = << >>
    /\ elo_status = "none"
    /\ elo_home_advantage = ELO_HOME_ADVANTAGE
    /\ features_df = << >>
    /\ model_artifacts \in SUBSET {"best_model.joblib", "data_scaler.joblib"}
    /\ Idle

\* A direct call (the command line, example_usage.py), with or without a
\* session of the caller's
RequestDirect ==
    \E home \in RequestNames, away \in RequestNames, home_moneyline \in RequestLines,
       away_moneyline \in RequestLines, db \in {"None", "session"},
       answer \in RequestAnswers :
        generate_prediction_with_value(home, away, home_moneyline, away_moneyline,
                                       db, answer)

RequestApi ==
    \E home \in RequestNames, away \in RequestNames, home_moneyline \in RequestLines,
       away_moneyline \in RequestLines, answer \in RequestAnswers :
        predict_game(home, away, home_moneyline, away_moneyline, answer)

RequestNext == RequestDirect \/ RequestApi

RequestSpec == RequestInit /\ [][RequestNext]_vars

-----------------------------------------------------------------------------
(* Properties of the prediction request *)

\* C19: the confidence of a prediction with home win probability p is
\* "High" if |p - 0.5| > 0.20, "Medium" if 0.10 < |p - 0.5| <= 0.20 and
\* "Low" otherwise; at exactly 0.20 it is "Medium", at exactly 0.10 "Low".
C19_ConfidenceLabel ==
    prediction.returned = "dict" =>
        LET p == prediction.home_win_probability
            twice_distance == Abs(2 * p.num - p.den)
        IN  prediction.confidence =
              IF 5 * twice_distance > 2 * p.den THEN "High"
              ELSE IF 5 * twice_distance > p.den THEN "Medium"
              ELSE "Low"

\* C19 witness: a prediction at p = 0.7 (|p - 0.5| exactly 0.20) is labelled
\* "Medium".
C19_Witness ==
    /\ prediction.returned = "dict"
    /\ prediction.home_win_probability = [num |-> 7, den |-> 10]
    /\ prediction.confidence = "Medium"

\* C20: with both moneylines given, the recommendation names a side only if
\* that side's win probability exceeds its implied probability by more than
\* VALUE_EDGE_THRESHOLD, names a side whenever one does, and is "No Value"
\* when neither does; with a moneyline missing it is "No Value".
C20_ValueRecommendation ==
    prediction.returned = "dict" =>
        LET both == request.home_moneyline # NULL /\ request.away_moneyline # NULL
            home_value == both /\ EdgeExceedsThreshold(prediction.home_win_probability,
                                                       request.home_moneyline)
            away_value == both /\ EdgeExceedsThreshold(prediction.away_win_probability,
                                                       request.away_moneyline)
            value == prediction.value_bet_recommendation
        IN  /\ value \in {"Bet Home", "Bet Away", "No Value"}
            /\ value = "Bet Home" => home_value
            /\ value = "Bet Away" => away_value
            /\ value = "No Value" <=> ~home_value /\ ~away_value

\* C20 witness: with both lines given, the away side is recommended while
\* the home side's edge falls short.
C20_Witness ==
    /\ prediction.returned = "dict"
    /\ request.home_moneyline # NULL /\ request.away_moneyline # NULL
    /\ prediction.value_bet_recommendation = "Bet Away"
    /\ ~EdgeExceedsThreshold(prediction.home_win_probability, request.home_moneyline)

-----------------------------------------------------------------------------
(* Properties of failing requests *)

KnownTeam(name) ==
    \E t \in teams : t.team_name = name \/ t.abbreviation = name

ArtifactMissing ==
    "best_model.joblib" \notin model_artifacts
        \/ "data_scaler.joblib" \notin model_artifacts

UnknownTeamRequested ==
    ~KnownTeam(request.home_team_name) \/ ~KnownTeam(request.away_team_name)

\* C21: a request naming an unknown team, with model and scaler present,
\* fails with ValueError (404 over HTTP); a request made while the model or
\* the scaler is missing fails with FileNotFoundError (503 over HTTP); so
\* neither is reported as the other kind or as a prediction.
C21_ErrorKinds ==
    request.made =>
        /\ ArtifactMissing =>
              /\ prediction.returned = "FileNotFoundError"
              /\ http_status \in {0, 503}
        /\ UnknownTeamRequested /\ ~ArtifactMissing =>
              /\ prediction.returned = "ValueError"
              /\ http_status \in {0, 404}

\* C21 witness: an HTTP request for an unknown away team is answered 404
\* while model and scaler are in place.
C21_Witness ==
    /\ request.made
    /\ ~ArtifactMissing
    /\ KnownTeam(request.home_team_name)
    /\ ~KnownTeam(request.away_team_name)
    /\ prediction.returned = "ValueError"
    /\ http_status = 404

\* C21 witness: an HTTP request made without a scaler is answered 503, also
\* when it names an unknown team.
C21_WitnessMissingArtifact ==
    /\ request.made
    /\ model_artifacts = {"best_model.joblib"}
    /\ UnknownTeamRequested
    /\ prediction.returned = "FileNotFoundError"
    /\ http_status = 503

\* C29: generate_prediction closes the session exactly when it opened it
\* itself, whatever way it is left; a session passed in is never closed.
C29_SessionClosedIffOpened ==
    request.made =>
        /\ db_session.opened <=> ~db_session.passed
        /\ db_session.closed <=> db_session.opened
        /\ db_session.passed => ~db_session.closed

\* C29 witness: a call without a session that fails on an unknown team has
\* closed the session it opened.
C29_Witness ==
    /\ request.made
    /\ prediction.returned = "ValueError"
    /\ db_session.opened
    /\ db_session.closed

\* C29 witness: a successful call with the caller's session leaves it open.
C29_WitnessPassed ==
    /\ request.made
    /\ prediction.returned = "dict"
    /\ db_session.passed
    /\ ~db_session.closed

-----------------------------------------------------------------------------
(* Odds ingestion from The Odds API: data_ingestion.py *)

\* The database team an API team name maps to (the set is empty when none
\* does); API names are written as the abbreviation they map to
_map_odds_api_team_to_db_team(T, odds_api_team_name) ==
    { t \in T : t.abbreviation = odds_api_team_name }

\* The bookmaker loop of _parse_odds_api_response from position i on: the
\* row of (game_id, bookmaker) is updated if there is one, added otherwise
RECURSIVE UpsertBookmakers(_, _, _, _)
UpsertBookmakers(O, game_id, bookmakers, i) ==
    IF i > Len(bookmakers)
    THEN O
    ELSE LET b == bookmakers[i]
             existing == { o \in O : o.game_id = game_id /\ o.bookmaker = b.title }
             first == CHOOSE o \in existing : \A x \in existing : o.id <= x.id
             O1 == IF existing # {}
                   THEN (O \ {first}) \cup
                          { [first EXCEPT !.home_team_moneyline = b.home_price,
                                          !.away_team_moneyline = b.away_price] }
                   ELSE O \cup { [ id |-> Cardinality(O) + 1,
                                   game_id |-> game_id,
                                   bookmaker |-> b.title,
                                   home_team_moneyline |-> b.home_price,
                                   away_team_moneyline |-> b.away_price ] }
         IN  UpsertBookmakers(O1, game_id, bookmakers, i + 1)

\* _parse_odds_api_response for one game of a response: the games and odds
\* tables afterwards
_parse_odds_api_response(G, O, game_data, game_date) ==
    LET home == _map_odds_api_team_to_db_team(teams, game_data.home_team)
        away == _map_odds_api_team_to_db_team(teams, game_data.away_team)
    IN  IF home = {} \/ away = {}
        THEN [games |-> G, odds |-> O]
        ELSE LET home_team == CHOOSE t \in home : TRUE
                 away_team == CHOOSE t \in away : TRUE
                 game_id == _create_game_id(game_date, home_team.abbreviation,
                                            away_team.abbreviation)
                 game == [ game_id |-> game_id, date |-> game_date,
                           home_team_id |-> home_team.team_id,
                           away_team_id |-> away_team.team_id,
                           home_score |-> NULL,
                           away_score |-> NULL,
                           season |-> FeedSeason(game_date),
                           home_team_pregame_elo |-> NULL,
                           away_team_pregame_elo |-> NULL ]
                 G1 == IF \E g \in G : g.game_id = game_id THEN G ELSE G \cup {game}
             IN  [games |-> G1,
                  odds |-> UpsertBookmakers(O, game_id, game_data.bookmakers, 1)]

\* The loop over the games of a response
RECURSIVE ParseResponse(_, _, _, _, _)
ParseResponse(G, O, data, game_date, i) ==
    IF i > Len(data)
    THEN [games |-> G, odds |-> O]
    ELSE LET after == _parse_odds_api_response(G, O, data[i], game_date)
         IN  ParseResponse(after.games, after.odds, data, game_date, i + 1)

\* What a request to the feed can give: a rate limit, a network error, or a
\* list of games (data) that may be empty or fail to be stored
FeedFailures == {"429", "RequestException"}

Bookmaker(title, home_price, away_price) ==
    [title |-> title, home_price |-> home_price, away_price |-> away_price]

\* The games of a response: two stored teams or a team the database does
\* not map; one bookmaker, two bookmakers, or one bookmaker listed twice
ApiGameData ==
    { [home_team |-> f[1], away_team |-> f[2], bookmakers |-> b] :
        f \in { <<1, 2>>, <<3, 1>> },
        b \in { << Bookmaker("book1", 120, NULL) >>,
                << Bookmaker("book1", 0 - 150, 120), Bookmaker("book2", 0 - 150, 120) >>,
                << Bookmaker("book1", 120, 120), Bookmaker("book1", 120, NULL) >> } }

ApiResponses == { << >> } \cup { << game_data >> : game_data \in ApiGameData }

\* The tables stay within the bounds of the model
WithinBounds(after) ==
    /\ Cardinality(after.games) <= MaxGames
    /\ Cardinality(after.odds) <= MaxGames

\* fetch_live_odds for one date, the API key configured: a failed request
\* stores nothing
fetch_live_odds(game_date) ==
    /\ \/ UNCHANGED <<games, odds>>
       \/ \E data \in ApiResponses :
             LET after == ParseResponse(games, odds, data, game_date, 1)
             IN  /\ WithinBounds(after)
                 /\ games' = after.games
                 /\ odds' = after.odds
    /\ UNCHANGED <<teams, box_scores, elo_vars, features_df, backtest_vars, predict_vars,
                   api_vars>>

\* fetch_historical_odds_from_api up to the loop: without an API key it
\* returns at once
fetch_historical_odds_from_api_begin(start_date, range_end, api_key) ==
    /\ api_pc # "loop"
    /\ api_pc' = IF api_key THEN "loop" ELSE "returned"
    /\ current_date' = IF api_key THEN start_date ELSE 0
    /\ end_date' = IF api_key THEN range_end ELSE 0
    /\ feed_failures' = 0
    /\ response' = "none"
    /\ UNCHANGED <<store_vars, elo_vars, features_df, backtest_vars, predict_vars>>

\* One pass of the loop body in which a failed request moves on to the next
\* date
LoopBodyAdvancingOnFailure ==
    /\ api_pc = "loop"
    /\ current_date <= end_date
    /\ \/ /\ feed_failures < MaxFailures
          /\ \E failure \in FeedFailures : response' = failure
          /\ feed_failures' = 0
          /\ current_date' = current_date + 1
          /\ UNCHANGED <<games, odds>>
       \/ /\ response' = "Exception"
          /\ feed_failures' = 0
          /\ current_date' = current_date + 1
          /\ UNCHANGED <<games, odds>>
       \/ \E data \in ApiResponses :
             LET after == ParseResponse(games, odds, data, current_date, 1)
             IN  /\ WithinBounds(after)
                 /\ response' = IF data = << >> THEN "empty" ELSE "data"
                 /\ feed_failures' = 0
                 /\ current_date' = current_date + 1
                 /\ games' = after.games
                 /\ odds' = after.odds
    /\ UNCHANGED <<teams, box_scores, elo_vars, features_df, backtest_vars, predict_vars,
                   api_pc, end_date>>

\* One pass of the loop body: a 429 or a RequestException leaves the date
\* where it is; an empty response, a stored response and any other exception
\* move to the next date
fetch_historical_odds_from_api_step ==
    /\ api_pc = "loop"
    /\ current_date <= end_date
    /\ \/ /\ feed_failures < MaxFailures
          /\ \E failure \in FeedFailures : response' = failure
          /\ feed_failures' = feed_failures + 1
          /\ UNCHANGED <<current_date, games, odds>>
       \/ /\ response' = "Exception"
          /\ feed_failures' = 0
          /\ current_date' = current_date + 1
          /\ UNCHANGED <<games, odds>>
       \/ \E data \in ApiResponses :
             LET after == ParseResponse(games, odds, data, current_date, 1)
             IN  /\ WithinBounds(after)
                 /\ response' = IF data = << >> THEN "empty" ELSE "data"
                 /\ feed_failures' = 0
                 /\ current_date' = current_date + 1
                 /\ games' = after.games
                 /\ odds' = after.odds
    /\ UNCHANGED <<teams, box_scores, elo_vars, features_df, backtest_vars, predict_vars,
                   api_pc, end_date>>

\* The loop condition fails: the function returns, and its locals are gone
fetch_historical_odds_from_api_return ==
    /\ api_pc = "loop"
    /\ current_date > end_date
    /\ api_pc' = "returned"
    /\ current_date' = 0
    /\ end_date' = 0
    /\ feed_failures' = 0
    /\ response' = "none"
    /\ UNCHANGED <<store_vars, elo_vars, features_df, backtest_vars, predict_vars>>

-----------------------------------------------------------------------------
(* Specification of odds ingestion *)

\* fetch_historical_odds as an operation on the odds table
fetch_historical_odds_file(csv) ==
    /\ odds' = fetch_historical_odds(odds, csv, 1)
    /\ Cardinality(odds') <= MaxGames
    /\ UNCHANGED <<teams, games, box_scores, elo_vars, features_df, backtest_vars,
                   predict_vars, api_vars>>

\* Schedule rows of a game not yet played and of a home win, the box score
\* feed down
OddsScheduleRows ==
    { row \in ScheduleRowsNoBox :
        \/ row.HOME_PTS = NULL /\ row.VISITOR_PTS = NULL
        \/ row.HOME_PTS = 2 /\ row.VISITOR_PTS = 1 }

IngestOddsScheduleRow ==
    \E game_date \in Dates, row \in OddsScheduleRows :
        fetch_historical_games_and_stats(game_date, 1, 2, row)

\* Odds files quoting ATL - BOS of day 2: one bookmaker, or two
OddsFiles ==
    { << CsvRow(<<2, 1, 2>>, "book1", 0 - 150, NULL) >>,
      << CsvRow(<<2, 1, 2>>, "book2", 130, 120),
         CsvRow(<<2, 1, 2>>, "book1", 0 - 150, NULL) >> }

LoadOddsFile == \E csv \in OddsFiles : fetch_historical_odds_file(csv)

FetchLiveOdds == \E game_date \in Dates : fetch_live_odds(game_date)

FetchHistoricalOddsFromApi ==
    \E start_date \in Dates, range_end \in Dates, api_key \in BOOLEAN :
        fetch_historical_odds_from_api_begin(start_date, range_end, api_key)

OddsInit ==
    /\ Init
    /\ elo_home_advantage = ELO_HOME_ADVANTAGE

\* The ingestion script runs one operation at a time
OddsNext ==
    \/ api_pc # "loop" /\ IngestOddsScheduleRow
    \/ api_pc # "loop" /\ LoadOddsFile
    \/ api_pc # "loop" /\ FetchLiveOdds
    \/ FetchHistoricalOddsFromApi
    \/ fetch_historical_odds_from_api_step
    \/ fetch_historical_odds_from_api_return

OddsSpec == OddsInit /\ [][OddsNext]_vars

-----------------------------------------------------------------------------
(* Properties of odds ingestion *)

\* C22: the odds table never holds two rows for one (game, bookmaker).
C22_OneQuotePerGameAndBookmaker ==
    \A o1 \in odds, o2 \in odds :
        o1.game_id = o2.game_id /\ o1.bookmaker = o2.bookmaker => o1 = o2

\* C23: there is never a second team of an abbreviation, and never a second
\* game of a (date, home team, away team), whatever schedule rows and odds
\* records were ingested and however often.
C23_OneTeamPerAbbreviationOneGamePerKey ==
    /\ \A t1 \in teams, t2 \in teams :
          t1.abbreviation = t2.abbreviation => t1 = t2
    /\ \A g1 \in games, g2 \in games :
          /\ g1.date = g2.date
          /\ g1.home_team_id = g2.home_team_id
          /\ g1.away_team_id = g2.away_team_id
          => g1 = g2

\* C23 witness: both teams stored, a played game from the schedule next to a
\* game an odds record created, each with a quote.
C23_Witness ==
    /\ Cardinality(teams) = 2
    /\ \E g1 \in games, g2 \in games :
          /\ g1.home_score # NULL
          /\ g2.home_score = NULL
          /\ g1.date < g2.date
          /\ \E o1 \in odds, o2 \in odds :
                o1.game_id = g1.game_id /\ o2.game_id = g2.game_id

-----------------------------------------------------------------------------
(* Specification of the historical odds fetch *)

\* Two teams stored, no game and no quote yet
ApiLoopInit ==
    /\ teams = _get_or_create_team(_get_or_create_team({}, 2), 1)
    /\ games = {}
    /\ box_scores = {}
    /\ odds = {}
    /\ elo_ratings = << >>
    /\ elo_status = "none"
    /\ elo_home_advantage = ELO_HOME_ADVANTAGE
    /\ features_df = << >>
    /\ model_artifacts = {}
    /\ Idle

ApiLoopNext ==
    \/ FetchHistoricalOddsFromApi
    \/ fetch_historical_odds_from_api_step
    \/ fetch_historical_odds_from_api_return

\* The function runs on once called: a pass of the loop that can be made is
\* made, and so is the return.  The feed fails a date at most MaxFailures
\* times.
ApiLoopSpec ==
    /\ ApiLoopInit
    /\ [][ApiLoopNext]_vars
    /\ WF_vars(fetch_historical_odds_from_api_step)
    /\ WF_vars(fetch_historical_odds_from_api_return)

-----------------------------------------------------------------------------
(* Properties of the historical odds fetch *)

\* C30: a pass of the loop stays on its date after a 429 or a network error
\* and moves to the next date otherwise; the function is left only by
\* returning, with every date up to end_date behind it; and once in the loop
\* it does return.
C30_LoopTerminates ==
    /\ [][ api_pc = "loop" /\ api_pc' = "loop" =>
             /\ end_date' = end_date
             /\ IF response' \in FeedFailures
                THEN current_date' = current_date
                ELSE current_date' = current_date + 1 ]_vars
    /\ [][ api_pc = "loop" /\ api_pc' # "loop" =>
             api_pc' = "returned" /\ current_date > end_date ]_vars
    /\ (api_pc = "loop") ~> (api_pc = "returned")

\* C30 witness: the loop has stored the quotes of day 1 and is on day 2, the
\* last of the range, after two failed requests for it.
C30_Witness ==
    /\ api_pc = "loop"
    /\ current_date = 2
    /\ end_date = 2
    /\ feed_failures = 2
    /\ response \in FeedFailures
    /\ \E o \in odds : o.game_id[1] = 1

-----------------------------------------------------------------------------
(* The pipelines: training.py, train_pipeline; backtesting.py, run_backtest *)

\* create_feature_set called before the rating pass has written its stamps
PipelineFeaturesBeforePass == features_df' \in FeatureFrames

\* create_feature_set(db) called after calculate_elo_ratings(db) returned:
\* it reads the tables the pass left
PipelineFeatures == features_df' \in FeatureFrames'

\* calculate_elo_ratings(db) followed by create_feature_set(db); a KeyError
\* of the pass leaves the pipeline before the frame is built
PipelineRatingsAndFeatures ==
    LET pass == EloPass(teams, games, elo_home_advantage)
    IN  /\ elo_ratings' = pass.elo_ratings
        /\ UNCHANGED <<teams, box_scores, odds, elo_home_advantage>>
        /\ IF pass.raised
           THEN elo_status' = "KeyError" /\ UNCHANGED <<games, features_df>>
           ELSE elo_status' = "ok" /\ games' = pass.games /\ PipelineFeatures

\* train_pipeline: steps 1 and 2, then the scaler is saved by scale_data and
\* the model at the end, unless a step in between raises
train_pipeline ==
    /\ PipelineRatingsAndFeatures
    /\ \/ UNCHANGED model_artifacts
       \/ /\ elo_status' = "ok"
          /\ \E saved \in { {"data_scaler.joblib"},
                           {"data_scaler.joblib", "best_model.joblib"} } :
                model_artifacts' = model_artifacts \cup saved
    /\ UNCHANGED <<backtest_vars, request, prediction, db_session, http_status, api_vars>>

\* run_backtest up to the simulation: it needs the model and the scaler
run_backtest ==
    /\ "best_model.joblib" \in model_artifacts
    /\ "data_scaler.joblib" \in model_artifacts
    /\ PipelineRatingsAndFeatures
    /\ UNCHANGED <<backtest_vars, predict_vars, api_vars>>

PipelineNext == IngestFeatureRow \/ train_pipeline \/ run_backtest

PipelineSpec == FeatureInit /\ [][PipelineNext]_vars

-----------------------------------------------------------------------------
(* Properties of the pipelines *)

StampedGame(G, game_id) == CHOOSE g \in G : g.game_id = game_id

\* C24: when train_pipeline or run_backtest has built its frame, every game
\* carries the stamps of the pass the pipeline has just made, and every row's
\* team_elo and opponent_elo are those stamps of the row's game.
C24_FeaturesReadCompletedPass ==
    [][ (train_pipeline \/ run_backtest) /\ elo_status' = "ok" =>
          /\ \A g \in games' : /\ g.home_team_pregame_elo # NULL
                               /\ g.away_team_pregame_elo # NULL
          /\ \A i \in 1..Len(features_df') :
               LET row == features_df'[i]
                   g == StampedGame(games', row.game_id)
               IN  /\ row.team_elo = IF row.is_home = 1
                                     THEN g.home_team_pregame_elo
                                     ELSE g.away_team_pregame_elo
                   /\ row.opponent_elo = IF row.is_home = 1
                                         THEN g.away_team_pregame_elo
                                         ELSE g.home_team_pregame_elo ]_vars

\* C24 witness: a frame whose home row carries a stamp other than the
\* initial rating, in a store whose every game is stamped.
C24_Witness ==
    /\ elo_status = "ok"
    /\ \A g \in games : g.home_team_pregame_elo # NULL
    /\ \E i \in 1..Len(features_df) :
          /\ features_df[i].is_home = 1
          /\ features_df[i].team_elo # ELO_INITIAL * RatingUnit
          /\ features_df[i].team_elo =
               StampedGame(games, features_df[i].game_id).home_team_pregame_elo

-----------------------------------------------------------------------------
(* Properties of the training labels *)

\* C27: in every row of the frame target_did_win is 1 if target_win_margin
\* is positive and 0 if it is not, on the home and on the away side.
C27_LabelsAgree ==
    \A i \in 1..Len(features_df) :
        features_df[i].target_did_win =
            IF features_df[i].target_win_margin > 0 THEN 1 ELSE 0

====
